---- MODULE Spec2Model ----
(***************************************************************************)
(* Model of ship-tracker's GitHub client:                                  *)
(*   - executeWithRetry and the response cache (src/lib/GitHubUtils.ts)    *)
(*   - executeInBatches (src/lib/GitHubUtils.ts)                           *)
(*   - fetchGithubUserData, the per-user aggregation (src/lib/github.ts),  *)
(*     and the two ways a handle reaches it (src/components/UserInput.tsx) *)
(*   - the Home component's user lists and handlers (src/app/page.tsx)     *)
(* Times are milliseconds, as Date.now() and setTimeout count them; the    *)
(* clock advances in steps of one second.  Strings the program takes apart *)
(* or puts together (handles, cache keys, header values) are sequences of  *)
(* one-character strings.                                                  *)
(***************************************************************************)
EXTENDS Integers, Sequences, FiniteSets, TLC

VARIABLES
    now,            \* Date.now()
    responseCache,  \* GitHubUtils.ts:16, the Map cache key -> CacheEntry
    call,           \* the executeWithRetry invocations, one record per slot
    lastStore,      \* history: per key, the last fetched result, when, its TTL
    batch,          \* the executeInBatches invocation
    agg,            \* the fetchGithubUserData invocation
    page,           \* the state of the Home component and its handlers
    input           \* the state of the UserInput component and its upload

vars == <<now, responseCache, call, lastStore, batch, agg, page, input>>

(***************************************************************************)
(* Bounds of the model.                                                    *)
(***************************************************************************)
MaxTicks == 5
MaxRetriesArg == 2
MaxRequests == 3
MaxBatchSize == 2

(***************************************************************************)
(* Values of the program.                                                  *)
(***************************************************************************)
NoKey == <<"undefined">>
NoEntry == [absent |-> TRUE]
NoHeader == <<"undefined">>

\* the cache keys the callers pass: non-empty template strings, or none
CacheKeys == {<<"k", "1">>, <<"k", "2">>}
KeyArgs == CacheKeys \cup {NoKey}
\* the data a request resolves with
Values == {[data |-> "v1"], [data |-> "v2"]}
\* no value yet
None == [none |-> TRUE]
Durations == {0, 2000}
Delays == {1000}
\* x-ratelimit-reset: epoch seconds as a decimal string
ResetHeaders == {<<"0">>, <<"2">>}

Max(a, b) == IF a >= b THEN a ELSE b

Digit(ch) ==
    CASE ch = "0" -> 0 [] ch = "1" -> 1 [] ch = "2" -> 2 [] ch = "3" -> 3
      [] ch = "4" -> 4 [] ch = "5" -> 5 [] ch = "6" -> 6 [] ch = "7" -> 7
      [] ch = "8" -> 8 [] ch = "9" -> 9

RECURSIVE parseInt(_)
parseInt(s) ==
    IF Len(s) = 0 THEN 0
    ELSE 10 * parseInt(SubSeq(s, 1, Len(s) - 1)) + Digit(s[Len(s)])

(***************************************************************************)
(* The errors a request function rejects with.  status is the HTTP status  *)
(* (0: the error has no status field, a transport error); hasResponse      *)
(* says whether the error carries a response with headers.                 *)
(***************************************************************************)
\* the message of a remote error, a string in pieces
StatusText(status) ==
    CASE status = 404 -> <<"Not Found">>
      [] status = 403 -> <<"Forbidden">>
      [] OTHER -> <<"fetch failed">>

ApiError(name, status, hasResponse, remaining, reset) ==
    [name |-> name, status |-> status, hasResponse |-> hasResponse,
     remaining |-> remaining, reset |-> reset, message |-> StatusText(status)]

QuotaErrors ==
    {ApiError("HttpError", 403, TRUE, "0", r) : r \in ResetHeaders \cup {NoHeader}}
OtherErrors ==
    { ApiError("HttpError", 404, TRUE, "59", NoHeader),
      ApiError("HttpError", 403, TRUE, "59", NoHeader),
      ApiError("HttpError", 403, FALSE, "undefined", NoHeader),
      ApiError("TypeError", 0, FALSE, "undefined", NoHeader) }
FnErrors == QuotaErrors \cup OtherErrors

RateLimitError ==
    [name |-> "RateLimitError",
     message |-> <<"GitHub API rate limit exceeded">>]

IsQuotaExhaustedNoHeaderCheck(e) == e.status = 403

\* GitHubUtils.ts:84-92
IsQuotaExhausted(e) ==
    /\ e.status = 403
    /\ e.hasResponse
    /\ e.remaining = "0"

\* GitHubUtils.ts:55, 72: if (cacheKey)
Truthy(key) == key # NoKey /\ key # <<>>

\* Map.prototype.get and Map.prototype.set
Get(map, key) == IF key \in DOMAIN map THEN map[key] ELSE NoEntry
Put(map, key, entry) ==
    [k \in DOMAIN map \cup {key} |-> IF k = key THEN entry ELSE map[k]]

CacheValidInclusive(entry, t) == entry # NoEntry /\ t <= entry.expiresAt

\* GitHubUtils.ts:59
CacheValid(entry, t) == entry # NoEntry /\ t < entry.expiresAt

NewEntryNoTtl(result, t, cacheDuration) ==
    [data |-> result, timestamp |-> t, expiresAt |-> t]

NewEntryTtlOnly(result, t, cacheDuration) ==
    [data |-> result, timestamp |-> t, expiresAt |-> cacheDuration]

\* GitHubUtils.ts:74-78
NewEntry(result, t, cacheDuration) ==
    [data |-> result, timestamp |-> t, expiresAt |-> t + cacheDuration]

RetriesExhaustedOffByOne(retries, maxRetries) == retries > maxRetries

\* GitHubUtils.ts:93
RetriesExhausted(retries, maxRetries) == retries >= maxRetries

WaitTimeNoBuffer(resetTime, t) ==
    Max(parseInt(resetTime) * 1000 - t, 1000)

\* GitHubUtils.ts:106-109
WaitTime(resetTime, t) ==
    Max(parseInt(resetTime) * 1000 - t + 1000, 1000)

(***************************************************************************)
(* One executeWithRetry invocation.  pc is its position: "idle" (not       *)
(* called), "awaiting" (line 70, fn() is pending), "sleeping" (line 102 or *)
(* 110), "returned", "thrown".  The fields after res record the history of *)
(* the invocation for the properties below.                                *)
(***************************************************************************)
IdleCall ==
    [pc |-> "idle", cacheKey |-> NoKey, cacheDuration |-> 0, maxRetries |-> 0,
     initialDelay |-> 0, retries |-> 0, delay |-> 0, wakeAt |-> 0,
     backoff |-> FALSE, res |-> None, backoffs |-> 0,
     invoked |-> 0, rejected |-> 0, sleeps |-> 0, writes |-> 0,
     allQuota |-> TRUE,
     lastErr |-> None, hit |-> FALSE]

\* the locals of a finished invocation are gone
Finished(c, pc, res) ==
    [c EXCEPT !.pc = pc, !.res = res, !.retries = 0, !.delay = 0,
        !.wakeAt = 0, !.backoff = FALSE, !.backoffs = 0]

\* GitHubUtils.ts:47-70: the cache lookup and the first fn()
Entered(cacheKey, cacheDuration, maxRetries, initialDelay) ==
    LET base == [IdleCall EXCEPT !.cacheKey = cacheKey,
                    !.cacheDuration = cacheDuration, !.maxRetries = maxRetries,
                    !.initialDelay = initialDelay]
    IN  IF Truthy(cacheKey) /\ CacheValid(Get(responseCache, cacheKey), now)
        THEN Finished([base EXCEPT !.hit = TRUE], "returned",
                      Get(responseCache, cacheKey).data)
        ELSE [base EXCEPT !.pc = "awaiting", !.retries = 0,
                 !.delay = initialDelay, !.invoked = 1]

Enter(c, cacheKey, cacheDuration, maxRetries, initialDelay) ==
    call' = [call EXCEPT ![c] =
                Entered(cacheKey, cacheDuration, maxRetries, initialDelay)]

StoredFirstWins(cache, c, result, t) ==
    IF Truthy(c.cacheKey) /\ Get(cache, c.cacheKey) = NoEntry
    THEN Put(cache, c.cacheKey, NewEntry(result, t, c.cacheDuration))
    ELSE cache

\* GitHubUtils.ts:72-79: the cache after call c got result at time t
Stored(cache, c, result, t) ==
    IF Truthy(c.cacheKey)
    THEN Put(cache, c.cacheKey, NewEntry(result, t, c.cacheDuration))
    ELSE cache

\* GitHubUtils.ts:70-81: call c when fn() fulfils with result
OnFulfilled(c, result) ==
    Finished([c EXCEPT !.allQuota = FALSE], "returned", result)

\* GitHubUtils.ts:82-117: call c when fn() rejects with error at time t
OnRejected(c, error, t) ==
    LET seen == [c EXCEPT !.lastErr = error, !.rejected = @ + 1,
                    !.allQuota = @ /\ IsQuotaExhausted(error)]
    IN  IF IsQuotaExhausted(error)
        THEN IF RetriesExhausted(c.retries, c.maxRetries)
             THEN Finished(seen, "thrown", RateLimitError)
             ELSE IF error.reset = NoHeader \/ error.reset = <<>>
             THEN [seen EXCEPT !.pc = "sleeping", !.backoff = TRUE,
                      !.wakeAt = t + c.delay, !.sleeps = @ + 1,
                      !.backoffs = @ + 1]
             ELSE [seen EXCEPT !.pc = "sleeping", !.backoff = FALSE,
                      !.wakeAt = t + WaitTime(error.reset, t),
                      !.sleeps = @ + 1]
        ELSE Finished(seen, "thrown", error)

\* GitHubUtils.ts:102-103, 110, 113-114, 68-70: call c when its timer fires
\* and fn() is invoked again
OnTimer(c) ==
    [c EXCEPT !.pc = "awaiting",
        !.delay = IF c.backoff THEN @ * 2 ELSE @,
        !.backoff = FALSE, !.wakeAt = 0, !.lastErr = None,
        !.retries = @ + 1, !.invoked = @ + 1]

FnResolve(c, result) ==
    /\ call[c].pc = "awaiting"
    /\ responseCache' = Stored(responseCache, call[c], result, now)
    /\ call' = [call EXCEPT ![c] =
            OnFulfilled([call[c] EXCEPT
                            !.writes = IF responseCache' # responseCache
                                       THEN @ + 1 ELSE @],
                        result)]
    /\ lastStore' =
         IF call[c].cacheKey # NoKey
         THEN Put(lastStore, call[c].cacheKey,
                  [v |-> result, at |-> now, ttl |-> call[c].cacheDuration])
         ELSE lastStore
    /\ UNCHANGED now

FnReject(c, error) ==
    /\ call[c].pc = "awaiting"
    /\ call' = [call EXCEPT ![c] = OnRejected(call[c], error, now)]
    /\ UNCHANGED <<now, responseCache, lastStore>>

TimerFires(c) ==
    /\ call[c].pc = "sleeping"
    /\ now >= call[c].wakeAt
    /\ call' = [call EXCEPT ![c] = OnTimer(call[c])]
    /\ UNCHANGED <<now, responseCache, lastStore>>

Tick ==
    /\ now < MaxTicks * 1000
    /\ now' = now + 1000
    /\ UNCHANGED <<responseCache, call, lastStore>>

(***************************************************************************)
(* SpecRetry: a caller makes executeWithRetry calls one after the other,   *)
(* with any arguments, and takes each outcome before it calls again; the   *)
(* request function answers each invocation with any value or error.       *)
(***************************************************************************)
InitRetry ==
    /\ now = 0
    /\ responseCache = [k \in {} |-> NoEntry]
    /\ call = [c \in {1} |-> IdleCall]
    /\ lastStore = [k \in {} |-> NoEntry]
    /\ batch = None
    /\ agg = None
    /\ page = None
    /\ input = None

Done(c) == call[c].pc \in {"returned", "thrown"}

CallExecuteWithRetry ==
    \E c \in DOMAIN call, k \in KeyArgs, d \in Durations,
       m \in 0..MaxRetriesArg, i \in Delays :
        /\ call[c].pc = "idle"
        /\ Enter(c, k, d, m, i)
        /\ UNCHANGED <<now, responseCache, lastStore, batch, agg, page, input>>

RequestFulfils ==
    \E c \in DOMAIN call, v \in Values :
        FnResolve(c, v) /\ UNCHANGED <<batch, agg, page, input>>
RequestRejects ==
    \E c \in DOMAIN call, e \in FnErrors :
        FnReject(c, e) /\ UNCHANGED <<batch, agg, page, input>>
BackoffEnds ==
    \E c \in DOMAIN call : TimerFires(c) /\ UNCHANGED <<batch, agg, page, input>>
TimePasses == Tick /\ UNCHANGED <<batch, agg, page, input>>

\* the caller's await of the promise takes the outcome
Settle ==
    \E c \in DOMAIN call :
        /\ Done(c)
        /\ call' = [call EXCEPT ![c] = IdleCall]
        /\ UNCHANGED <<now, responseCache, lastStore, batch, agg, page, input>>

NextRetry ==
    \/ CallExecuteWithRetry
    \/ RequestFulfils
    \/ RequestRejects
    \/ BackoffEnds
    \/ Settle
    \/ TimePasses

SpecRetry == InitRetry /\ [][NextRetry]_vars

(***************************************************************************)
(* SpecRace: two callers call executeWithRetry with the same cache key,    *)
(* each at any time, so that their calls overlap in every way the event    *)
(* loop allows: each step is one run of code between two awaits.           *)
(***************************************************************************)
Racers == {1, 2}
RaceKey == <<"k", "1">>

\* what the request functions of the racing calls reject with
RaceErrors ==
    { ApiError("HttpError", 403, TRUE, "0", <<"0">>),
      ApiError("HttpError", 404, TRUE, "59", NoHeader) }

InitRace ==
    /\ now = 0
    /\ responseCache = [k \in {} |-> NoEntry]
    /\ call = [c \in Racers |-> IdleCall]
    /\ lastStore = [k \in {} |-> NoEntry]
    /\ batch = None
    /\ agg = None
    /\ page = None
    /\ input = None

RaceCall ==
    \E c \in DOMAIN call, d \in Durations, m \in 0..1, i \in Delays :
        /\ call[c].pc = "idle"
        /\ Enter(c, RaceKey, d, m, i)
        /\ UNCHANGED <<now, responseCache, lastStore, batch, agg, page, input>>

RaceRequestFulfils ==
    \E c \in DOMAIN call, v \in Values :
        FnResolve(c, v) /\ UNCHANGED <<batch, agg, page, input>>

RaceRequestRejects ==
    \E c \in DOMAIN call, e \in RaceErrors :
        FnReject(c, e) /\ UNCHANGED <<batch, agg, page, input>>

NextRace ==
    \/ RaceCall
    \/ RaceRequestFulfils
    \/ RaceRequestRejects
    \/ BackoffEnds
    \/ Settle
    \/ TimePasses

SpecRace == InitRace /\ [][NextRace]_vars


(***************************************************************************)
(* executeInBatches (GitHubUtils.ts:126-153).  Request function number r   *)
(* (1..n, the input's index r - 1) runs in call slot r, through            *)
(* executeWithRetry with its default arguments.  batch.i is the loop       *)
(* index; batch.order and batch.lastFinish record the history: the         *)
(* requests in the order they settled, and when the latest one settled.    *)
(***************************************************************************)
DefaultMaxRetries == 3
DefaultInitialDelay == 1000
DefaultCacheDuration == 5 * 60 * 1000
PauseMs == 1000

\* what the request functions of a batch run reject with
BatchErrors ==
    { ApiError("HttpError", 403, TRUE, "0", <<"0">>),
      ApiError("HttpError", 404, TRUE, "59", NoHeader) }

Min(a, b) == IF a <= b THEN a ELSE b

SliceShort(i, batchSize, n) == (i + 1)..Min(i + batchSize - 1, n)

SliceLong(i, batchSize, n) == (i + 1)..Min(i + batchSize + 1, n)

\* GitHubUtils.ts:133, requests.slice(i, i + batchSize) as slot numbers
Slice(i, batchSize, n) == (i + 1)..Min(i + batchSize, n)

MorePendingOffByOne(i, batchSize, n) == i + batchSize + 1 < n

\* GitHubUtils.ts:147
MorePending(i, batchSize, n) == i + batchSize < n

RECURSIVE SeqOf(_, _, _)
\* f[lo], ..., f[hi] as a sequence
SeqOf(f, lo, hi) == IF lo > hi THEN <<>> ELSE <<f[lo]>> \o SeqOf(f, lo + 1, hi)

RECURSIVE Reversed(_)
Reversed(q) == IF q = <<>> THEN <<>> ELSE Reversed(Tail(q)) \o <<Head(q)>>

PromiseAll(settled) ==
    [rejected |-> \E x \in 1..Len(settled) : settled[x].pc = "thrown",
     outcomes |-> settled]

\* GitHubUtils.ts:135-137, Promise.allSettled: never rejects, one outcome per
\* promise in the order of the promises
PromiseAllSettled(settled) == [rejected |-> FALSE, outcomes |-> settled]

PushedReversed(results, outcomes) ==
    results \o Reversed([x \in 1..Len(outcomes) |-> outcomes[x].res])

\* GitHubUtils.ts:139-145, result.value or result.reason pushed in turn
Pushed(results, outcomes) ==
    results \o [x \in 1..Len(outcomes) |-> outcomes[x].res]

Group == Slice(batch.i, batch.batchSize, batch.n)

\* what is left of an executeWithRetry call once its promise has been taken:
\* fulfilled with a value or rejected with a reason
Outcome(c) == [IdleCall EXCEPT !.pc = c.pc, !.res = c.res]

\* GitHubUtils.ts:132-137: the loop test at index i and, when it passes, the
\* group's executeWithRetry calls, each up to its first await
LoopAt(i, b, calls) ==
    IF i < b.n
    THEN /\ batch' = [b EXCEPT !.pc = "group", !.i = i]
         /\ call' = [c \in DOMAIN call |->
                       IF c \in Slice(i, b.batchSize, b.n)
                       THEN Entered(NoKey, DefaultCacheDuration,
                                    DefaultMaxRetries, DefaultInitialDelay)
                       ELSE calls[c]]
    ELSE /\ batch' = [b EXCEPT !.pc = "returned", !.i = i]
         /\ call' = calls

\* GitHubUtils.ts:126-137
CallExecuteInBatches ==
    /\ batch.pc = "idle"
    /\ LoopAt(0, [batch EXCEPT !.results = <<>>], call)
    /\ UNCHANGED <<now, responseCache, lastStore, agg, page, input>>

\* GitHubUtils.ts:135-150: the group's promises have all settled
GroupSettles ==
    /\ batch.pc = "group"
    /\ \A c \in Group : Done(c)
    /\ LET lo == batch.i + 1
           hi == Min(batch.i + batch.batchSize, batch.n)
           got == PromiseAllSettled(SeqOf(call, lo, hi))
           b == [batch EXCEPT !.results = Pushed(@, got.outcomes)]
           taken == [c \in DOMAIN call |->
                        IF c \in Group THEN Outcome(call[c]) ELSE call[c]]
       IN  IF got.rejected
           THEN batch' = [batch EXCEPT !.pc = "rejected"] /\ call' = taken
           ELSE IF MorePending(batch.i, batch.batchSize, batch.n)
           THEN /\ batch' = [b EXCEPT !.pc = "pause",
                                !.pauseUntil = now + PauseMs]
                /\ call' = taken
           ELSE LoopAt(batch.i + batch.batchSize, b, taken)
    /\ UNCHANGED <<now, responseCache, lastStore, agg, page, input>>

\* GitHubUtils.ts:148, 132: the pause is over, i += batchSize
PauseEnds ==
    /\ batch.pc = "pause"
    /\ now >= batch.pauseUntil
    /\ LoopAt(batch.i + batch.batchSize, [batch EXCEPT !.pauseUntil = 0], call)
    /\ UNCHANGED <<now, responseCache, lastStore, agg, page, input>>

\* the history of a step of slot c
Noted(c) ==
    batch' = IF Done(c)'
             THEN [batch EXCEPT !.order = Append(@, c), !.lastFinish = now]
             ELSE batch

BatchRequestFulfils ==
    \E c \in DOMAIN call, v \in Values :
        FnResolve(c, v) /\ Noted(c) /\ UNCHANGED <<agg, page, input>>
BatchRequestRejects ==
    \E c \in DOMAIN call, e \in BatchErrors :
        FnReject(c, e) /\ Noted(c) /\ UNCHANGED <<agg, page, input>>
BatchBackoffEnds ==
    \E c \in DOMAIN call : TimerFires(c) /\ UNCHANGED <<batch, agg, page, input>>

\* the continuation of a settled group runs before any timer or response
BatchTimePasses ==
    /\ ~(batch.pc = "group" /\ \A c \in Group : Done(c))
    /\ Tick
    /\ UNCHANGED <<batch, agg, page, input>>

InitBatch ==
    /\ now = 0
    /\ responseCache = [k \in {} |-> NoEntry]
    /\ lastStore = [k \in {} |-> NoEntry]
    /\ agg = None
    /\ page = None
    /\ input = None
    /\ \E n \in 0..MaxRequests, batchSize \in 0..MaxBatchSize :
        /\ call = [c \in 1..n |-> IdleCall]
        /\ batch = [pc |-> "idle", n |-> n, batchSize |-> batchSize, i |-> 0,
                    results |-> <<>>, pauseUntil |-> 0,
                    order |-> <<>>, lastFinish |-> 0]

NextBatch ==
    \/ CallExecuteInBatches
    \/ GroupSettles
    \/ PauseEnds
    \/ BatchRequestFulfils
    \/ BatchRequestRejects
    \/ BatchBackoffEnds
    \/ BatchTimePasses

SpecBatch == InitBatch /\ [][NextBatch]_vars

(***************************************************************************)
(* Handles.                                                                *)
(***************************************************************************)
LowerCase ==
    {"a", "b", "c", "d", "e", "f", "g", "h", "i", "j", "k", "l", "m",
     "n", "o", "p", "q", "r", "s", "t", "u", "v", "w", "x", "y", "z"}
UpperCase ==
    {"A", "B", "C", "D", "E", "F", "G", "H", "I", "J", "K", "L", "M",
     "N", "O", "P", "Q", "R", "S", "T", "U", "V", "W", "X", "Y", "Z"}
Digits == {"0", "1", "2", "3", "4", "5", "6", "7", "8", "9"}

\* [a-z\d] under the i flag
IsAlnum(ch) == ch \in LowerCase \cup UpperCase \cup Digits

\* UserInput.tsx:78: /^[a-z\d](?:[a-z\d]|-(?=[a-z\d])){0,38}$/i.test(s)
ValidHandle(s) ==
    /\ Len(s) >= 1
    /\ IsAlnum(s[1])
    /\ Len(s) - 1 <= 38
    /\ \A i \in 2..Len(s) :
          \/ IsAlnum(s[i])
          \/ s[i] = "-" /\ i < Len(s) /\ IsAlnum(s[i + 1])

RECURSIVE TrimStart(_)
TrimStart(s) ==
    IF s # <<>> /\ Head(s) = " " THEN TrimStart(Tail(s)) ELSE s

RECURSIVE TrimEnd(_)
TrimEnd(s) ==
    IF s # <<>> /\ s[Len(s)] = " "
    THEN TrimEnd(SubSeq(s, 1, Len(s) - 1)) ELSE s

\* String.prototype.trim
Trim(s) == TrimEnd(TrimStart(s))

Repeat(ch, n) == [x \in 1..n |-> ch]

\* what gets typed into the handle field, or stands in a row of a CSV file
Typed ==
    { <<>>, <<" ">>, <<"a">>, <<" ", "a", " ">>, <<"a", "-", "b">>,
      <<"a", "_", "b">>, <<"-", "a">>, <<"a", "-">>,
      <<"a", "-", "-", "b">>, Repeat("a", 39), Repeat("a", 40) }

(***************************************************************************)
(* fetchGithubUserData (src/lib/github.ts:30-175), the module the page     *)
(* imports.  Every remote request goes through executeWithRetry, in call   *)
(* slot 1; agg.pc names the request the aggregation is waiting for.        *)
(* agg.remoteCalls counts the executeWithRetry calls of the aggregation    *)
(* that went to the remote API rather than to the cache, and agg.entry     *)
(* records how the handle got here.                                        *)
(***************************************************************************)
HourMs == 60 * 60 * 1000
HalfHourMs == 30 * 60 * 1000
QuarterHourMs == 15 * 60 * 1000

\* github.ts:45, `user-${username}`
UserKey(username) == <<"u", "s", "e", "r", "-">> \o username
\* github.ts:59, `repos-${username}`
ReposKey(username) == <<"r", "e", "p", "o", "s", "-">> \o username
\* github.ts:74, `total-commits-${username}`
TotalCommitsKey(username) ==
    <<"t", "o", "t", "a", "l", "-", "c", "o", "m", "m", "i", "t", "s", "-">>
        \o username
\* github.ts:100, `commits-${username}-${repo.name}`
CommitsKey(username, repo) ==
    <<"c", "o", "m", "m", "i", "t", "s", "-">> \o username \o <<"-">> \o repo
\* github.ts:115, `commit-${username}-${repo.name}-${commit.sha}`
CommitKey(username, repo, sha) ==
    <<"c", "o", "m", "m", "i", "t", "-">> \o username \o <<"-">> \o repo
        \o <<"-">> \o sha
\* github.ts:187, `pull-requests-${username}`
PullRequestsKey(username) ==
    <<"p", "u", "l", "l", "-", "r", "e", "q", "u", "e", "s", "t", "s", "-">>
        \o username

\* what the remote API answers with
RepoLists ==
    { <<>>,
      <<[name |-> <<"r", "1">>]>>,
      <<[name |-> <<"r", "1">>], [name |-> <<"r", "2">>]>> }
CommitLists ==
    { <<>>,
      <<[sha |-> <<"c", "1">>]>>,
      <<[sha |-> <<"c", "1">>], [sha |-> <<"c", "2">>]>> }
NoStats == [undefined |-> TRUE]
CommitStats ==
    { NoStats, [additions |-> 0, deletions |-> 0],
      [additions |-> 3, deletions |-> 2], [additions |-> 2, deletions |-> 0] }
TotalCounts == {6, 100}
PullCounts == {3}

QuotaError == ApiError("HttpError", 403, TRUE, "0", <<"0">>)
AggErrors ==
    { ApiError("HttpError", 404, TRUE, "59", NoHeader),
      ApiError("TypeError", 0, FALSE, "undefined", NoHeader) }

RemoteValues(a) ==
    CASE a.pc = "user" ->
            {[login |-> a.username, avatar_url |-> "avatar"]}
      [] a.pc = "repos" -> RepoLists
      [] a.pc = "search" -> {[total_count |-> n] : n \in TotalCounts}
      [] a.pc = "listCommits" -> CommitLists
      [] a.pc = "getCommit" ->
            {[sha |-> a.commits[a.ci].sha, stats |-> st] : st \in CommitStats}
      [] a.pc = "pulls" -> {[total_count |-> n] : n \in PullCounts}

Fulfilment(v) == [ok |-> TRUE, value |-> v]
Rejection(e) == [ok |-> FALSE, error |-> e]

\* the answers to the attempts of one executeWithRetry call: quota-exhausted
\* rejections, then a value or another error, or quota-exhausted to the end
Scripts(values) ==
    { [x \in 1..q |-> Rejection(QuotaError)] \o <<last>> :
        q \in 0..DefaultMaxRetries,
        last \in {Fulfilment(v) : v \in values}
                    \cup {Rejection(e) : e \in AggErrors} }
    \cup { [x \in 1..(DefaultMaxRetries + 1) |-> Rejection(QuotaError)] }

RECURSIVE RunCall(_, _)
\* GitHubUtils.ts:68-118: the retry loop of call c run to its end on the
\* answers fn() gives, the waits between the attempts taken in one step
RunCall(c, responses) ==
    IF c.pc = "sleeping" THEN RunCall(OnTimer(c), responses)
    ELSE IF c.pc = "awaiting" /\ responses # <<>>
    THEN RunCall(IF Head(responses).ok
                 THEN OnFulfilled(c, Head(responses).value)
                 ELSE OnRejected(c, Head(responses).error, now),
                 Tail(responses))
    ELSE c

IdleAgg ==
    [pc |-> "idle", username |-> <<>>, entry |-> "none", userData |-> None,
     repos |-> <<>>, totalCommits |-> 0, totalAdditions |-> 0,
     totalDeletions |-> 0, commitsWithStats |-> 0, ri |-> 0,
     commits |-> <<>>, ci |-> 0, result |-> None, remoteCalls |-> 0]

\* Math.round(num / den) for den > 0: halves round up
MathRound(num, den) == (2 * num + den) \div (2 * den)

SampledReposAll(repos) == repos

\* github.ts:88, repos.slice(0, 4)
SampledRepos(repos) == SubSeq(repos, 1, Min(4, Len(repos)))

\* github.ts:119-124
HasChanges(stats) ==
    /\ stats # NoStats
    /\ (stats.additions > 0 \/ stats.deletions > 0)

\* github.ts:139-142
AvgCommitSize(a) ==
    IF a.commitsWithStats > 0
    THEN MathRound(a.totalAdditions + a.totalDeletions, a.commitsWithStats)
    ELSE 0

\* github.ts:145
MonthlyCommits(a) == MathRound(a.totalCommits, 12)

\* github.ts:152-168
UserRecord(a, pullRequests) ==
    [username |-> a.userData.login,
     avatarUrl |-> a.userData.avatar_url,
     commitCount |-> a.totalCommits,
     pullRequests |-> pullRequests,
     repoCount |-> Len(a.repos),
     stats |->
        [commitsPerDay |-> MathRound(MonthlyCommits(a), 30),
         commitsPerWeek |-> MathRound(MonthlyCommits(a), 4),
         weeklyCommits |-> MathRound(MonthlyCommits(a), 4),
         monthlyCommits |-> MonthlyCommits(a),
         totalCommits |-> a.totalCommits,
         avgCommitSize |-> AvgCommitSize(a),
         contributionGraph |-> <<"https://ghchart.rshah.org/">> \o a.username,
         topRepos |-> Len(a.repos)]]

\* github.ts:170: error instanceof Error
IsErrorInstance(e) ==
    e.name \in {"HttpError", "TypeError", "RateLimitError", "GitHubError"}

\* github.ts:169-174
Caught(e) ==
    IF IsErrorInstance(e)
    THEN [error |-> [message |-> e.message]]
    ELSE [error |-> [message |-> <<"An unknown error occurred">>]]

TryAtInnerOnly(pc) ==
    CASE pc = "search" -> "search"
      [] pc \in {"listCommits", "getCommit"} -> "repo"
      [] pc = "pulls" -> "pulls"
      [] OTHER -> "none"

TryAtPullsOuter(pc) ==
    CASE pc \in {"user", "repos", "pulls"} -> "outer"
      [] pc = "search" -> "search"
      [] pc \in {"listCommits", "getCommit"} -> "repo"

\* the innermost try block around the await at pc: github.ts:33 and 169
\* (outer), 65 and 78 (search), 89 and 131 (repo), 178 and 192 (pulls)
TryAt(pc) ==
    CASE pc \in {"user", "repos"} -> "outer"
      [] pc = "search" -> "search"
      [] pc \in {"listCommits", "getCommit"} -> "repo"
      [] pc = "pulls" -> "pulls"

\* await executeWithRetry(fn, key, ttl) in aggregation a: the call up to its
\* first await, with fn() invoked unless the cache serves the key
Await(a, key, ttl) ==
    LET c == Entered(key, ttl, DefaultMaxRetries, DefaultInitialDelay)
    IN  /\ call' = [call EXCEPT ![1] = c]
        /\ agg' = [a EXCEPT !.remoteCalls = @ + c.invoked]

\* the promise of fetchGithubUserData is fulfilled with result
Return(a, result) ==
    /\ agg' = [IdleAgg EXCEPT !.pc = "done", !.username = a.username,
                  !.entry = a.entry, !.result = result,
                  !.remoteCalls = a.remoteCalls]
    /\ call' = [call EXCEPT ![1] = IdleCall]

\* github.ts:88-103 and 150, 179-189: the sampling loop at repository ri,
\* and past its end the pull request count
NextRepo(a, ri) ==
    IF ri <= Len(SampledRepos(a.repos))
    THEN Await([a EXCEPT !.pc = "listCommits", !.ri = ri, !.commits = <<>>,
                   !.ci = 0],
               CommitsKey(a.username, a.repos[ri].name), QuarterHourMs)
    ELSE Await([a EXCEPT !.pc = "pulls", !.ri = 0, !.commits = <<>>,
                   !.ci = 0],
               PullRequestsKey(a.username), HourMs)

\* github.ts:106-117: the inner loop at commit ci
NextCommit(a, ci) ==
    IF ci <= Len(a.commits)
    THEN Await([a EXCEPT !.pc = "getCommit", !.ci = ci],
               CommitKey(a.username, a.repos[a.ri].name, a.commits[ci].sha),
               HourMs)
    ELSE NextRepo(a, a.ri + 1)

\* github.ts:30-47
FetchGithubUserData(username, entry) ==
    Await([IdleAgg EXCEPT !.pc = "user", !.username = username,
              !.entry = entry],
          UserKey(username), HourMs)

\* UserInput.tsx:34-40, page.tsx:20-48: the handle field is submitted on a
\* page that lists nobody yet
HandleAddUser ==
    /\ agg.pc = "idle"
    /\ \E text \in Typed :
        /\ Trim(text) # <<>>
        /\ FetchGithubUserData(Trim(text), "single")
    /\ UNCHANGED <<now, responseCache, lastStore, batch, page, input>>

\* UserInput.tsx:67-82, 124-126, 154-167, page.tsx:20-48: a CSV file of one
\* row is uploaded
HandleFileUpload ==
    /\ agg.pc = "idle"
    /\ \E text \in Typed :
        /\ text # <<>>
        /\ Trim(text) # <<>>
        /\ ValidHandle(Trim(text))
        /\ FetchGithubUserData(Trim(text), "csv")
    /\ UNCHANGED <<now, responseCache, lastStore, batch, page, input>>

\* the remote API answers the attempts of the pending call
RemoteAnswers ==
    /\ agg.pc \notin {"idle", "done", "rejected"}
    /\ call[1].pc = "awaiting"
    /\ \E script \in Scripts(RemoteValues(agg)) :
        LET c == RunCall(call[1], script)
        IN  /\ call' = [call EXCEPT ![1] = Outcome(c)]
            /\ responseCache' =
                 IF c.pc = "returned"
                 THEN Stored(responseCache, call[1], c.res, now)
                 ELSE responseCache
    /\ UNCHANGED <<now, lastStore, batch, agg, page, input>>

\* github.ts:40-61
UserDataArrives ==
    /\ agg.pc = "user"
    /\ call[1].pc = "returned"
    /\ Await([agg EXCEPT !.pc = "repos", !.userData = call[1].res],
             ReposKey(agg.username), HalfHourMs)
    /\ UNCHANGED <<now, responseCache, lastStore, batch, page, input>>

\* github.ts:50-76
ReposArrive ==
    /\ agg.pc = "repos"
    /\ call[1].pc = "returned"
    /\ Await([agg EXCEPT !.pc = "search", !.repos = call[1].res],
             TotalCommitsKey(agg.username), HalfHourMs)
    /\ UNCHANGED <<now, responseCache, lastStore, batch, page, input>>

\* github.ts:66-103
SearchArrives ==
    /\ agg.pc = "search"
    /\ call[1].pc = "returned"
    /\ NextRepo([agg EXCEPT !.totalCommits = call[1].res.total_count], 1)
    /\ UNCHANGED <<now, responseCache, lastStore, batch, page, input>>

\* github.ts:90-117
CommitsArrive ==
    /\ agg.pc = "listCommits"
    /\ call[1].pc = "returned"
    /\ NextCommit([agg EXCEPT !.commits = call[1].res], 1)
    /\ UNCHANGED <<now, responseCache, lastStore, batch, page, input>>

\* github.ts:107-129
CommitArrives ==
    /\ agg.pc = "getCommit"
    /\ call[1].pc = "returned"
    /\ LET stats == call[1].res.stats
       IN  NextCommit(IF HasChanges(stats)
                      THEN [agg EXCEPT
                               !.totalAdditions = @ + stats.additions,
                               !.totalDeletions = @ + stats.deletions,
                               !.commitsWithStats = @ + 1]
                      ELSE agg,
                      agg.ci + 1)
    /\ UNCHANGED <<now, responseCache, lastStore, batch, page, input>>

\* github.ts:150-168, 179-191
PullRequestsArrive ==
    /\ agg.pc = "pulls"
    /\ call[1].pc = "returned"
    /\ Return(agg, UserRecord(agg, call[1].res.total_count))
    /\ UNCHANGED <<now, responseCache, lastStore, batch, page, input>>

\* github.ts:78-81, 131-135, 169-174, 192-195: the awaited call throws and
\* the innermost catch around it takes over
RequestThrows ==
    /\ agg.pc \notin {"idle", "done", "rejected"}
    /\ call[1].pc = "thrown"
    /\ CASE TryAt(agg.pc) = "outer" ->
                Return(agg, Caught(call[1].res))
         [] TryAt(agg.pc) = "search" ->
                NextRepo([agg EXCEPT !.totalCommits = 0], 1)
         [] TryAt(agg.pc) = "repo" ->
                NextRepo(agg, agg.ri + 1)
         [] TryAt(agg.pc) = "pulls" ->
                Return(agg, UserRecord(agg, 0))
         [] OTHER ->
                /\ agg' = [agg EXCEPT !.pc = "rejected"]
                /\ call' = [call EXCEPT ![1] = IdleCall]
    /\ UNCHANGED <<now, responseCache, lastStore, batch, page, input>>

(***************************************************************************)
(* SpecAgg: one handle is submitted, through the handle field or a CSV     *)
(* file, on a fresh page with an empty cache, and is aggregated.  The      *)
(* clock stands still: the cache lifetimes of the aggregation are a        *)
(* quarter of an hour and more.                                            *)
(***************************************************************************)
InitAgg ==
    /\ now = 0
    /\ responseCache = [k \in {} |-> NoEntry]
    /\ call = [c \in {1} |-> IdleCall]
    /\ lastStore = [k \in {} |-> NoEntry]
    /\ batch = None
    /\ agg = IdleAgg
    /\ page = None
    /\ input = None

NextAgg ==
    \/ HandleAddUser
    \/ HandleFileUpload
    \/ RemoteAnswers
    \/ UserDataArrives
    \/ ReposArrive
    \/ SearchArrives
    \/ CommitsArrive
    \/ CommitArrives
    \/ PullRequestsArrive
    \/ RequestThrows

SpecAgg == InitAgg /\ [][NextAgg]_vars

(***************************************************************************)
(* SpecSample: the account a, which has five repositories, is aggregated;  *)
(* each request is answered at once, with a value or with a 404.           *)
(***************************************************************************)
FiveRepos ==
    <<[name |-> <<"r", "1">>], [name |-> <<"r", "2">>],
      [name |-> <<"r", "3">>], [name |-> <<"r", "4">>],
      [name |-> <<"r", "5">>]>>

SampleValues(a) ==
    CASE a.pc = "user" ->
            {[login |-> a.username, avatar_url |-> "avatar"]}
      [] a.pc = "repos" -> {FiveRepos}
      [] a.pc = "search" -> {[total_count |-> 6]}
      [] a.pc = "listCommits" ->
            {<<>>, <<[sha |-> <<"c", "1">>]>>}
      [] a.pc = "getCommit" ->
            {[sha |-> a.commits[a.ci].sha, stats |-> st] :
                st \in CommitStats}
      [] a.pc = "pulls" -> {[total_count |-> 3]}

SampleScripts(values) ==
    {<<Fulfilment(v)>> : v \in values}
        \cup {<<Rejection(ApiError("HttpError", 404, TRUE, "59", NoHeader))>>}

SampleStarts ==
    /\ agg.pc = "idle"
    /\ FetchGithubUserData(<<"a">>, "single")
    /\ UNCHANGED <<now, responseCache, lastStore, batch, page, input>>

SampleAnswers ==
    /\ agg.pc \notin {"idle", "done", "rejected"}
    /\ call[1].pc = "awaiting"
    /\ \E script \in SampleScripts(SampleValues(agg)) :
        LET c == RunCall(call[1], script)
        IN  /\ call' = [call EXCEPT ![1] = Outcome(c)]
            /\ responseCache' =
                 IF c.pc = "returned"
                 THEN Stored(responseCache, call[1], c.res, now)
                 ELSE responseCache
    /\ UNCHANGED <<now, lastStore, batch, agg, page, input>>

NextSample ==
    \/ SampleStarts
    \/ SampleAnswers
    \/ UserDataArrives
    \/ ReposArrive
    \/ SearchArrives
    \/ CommitsArrive
    \/ CommitArrives
    \/ PullRequestsArrive
    \/ RequestThrows

SpecSample == InitAgg /\ [][NextSample]_vars

(***************************************************************************)
(* detailedAnalysis (src/unnamed/part_002:251-358), the strategy of        *)
(* fetchGithubUserData for accounts of at most five repositories.  The     *)
(* repositories are paged through side by side (Promise.all over           *)
(* repos.map); agg.repos holds, for each, the locals of its callback:      *)
(* page, hasMoreCommits, allCommits and, once its loop is over,            *)
(* repoActivity; requests counts its page requests.  A commit is taken by  *)
(* where its date lies: within the last week, within the last month, or    *)
(* before.                                                                 *)
(***************************************************************************)
MaxRepos == 3

\* part_002:294
MaxPages == 5

\* the pages of commits the remote API answers with
CommitPages == {<<>>, <<"week", "old", "month">>}

NoActivity == [weekly |-> 0, monthly |-> 0, total |-> 0]

\* part_002:269-285: the callback of one repository up to its first await
RepoStarted ==
    [page |-> 1, hasMoreCommits |-> TRUE, allCommits |-> <<>>,
     repoActivity |-> NoActivity, settled |-> FALSE, requests |-> 1]

Count(q, classes) == Len(SelectSeq(q, LAMBDA c : c \in classes))

\* part_002:308-323
RepoActivity(allCommits) ==
    [weekly |-> Count(allCommits, {"week"}),
     monthly |-> Count(allCommits, {"week", "month"}),
     total |-> Len(allCommits)]

PageCapReachedLate(pageNo) == pageNo > MaxPages + 1

\* part_002:294
PageCapReached(pageNo) == pageNo > MaxPages

\* part_002:277, 307-328: the loop test of a repository's callback and, when
\* it fails, the rest of the callback; when it passes, page is requested
Paging(r) ==
    IF r.hasMoreCommits
    THEN [r EXCEPT !.requests = @ + 1]
    ELSE [r EXCEPT !.repoActivity = RepoActivity(r.allCommits),
             !.settled = TRUE]

\* part_002:287-297
PageTaken(r, commits) ==
    IF Len(commits) = 0
    THEN Paging([r EXCEPT !.hasMoreCommits = FALSE])
    ELSE Paging([r EXCEPT !.allCommits = @ \o commits, !.page = @ + 1,
                    !.hasMoreCommits = ~PageCapReached(r.page + 1)])

\* part_002:298-304
PageFailed(r) == Paging([r EXCEPT !.hasMoreCommits = FALSE])

RECURSIVE SumOf(_, _)
SumOf(q, field) ==
    IF q = <<>> THEN 0 ELSE Head(q).repoActivity[field] + SumOf(Tail(q), field)

\* part_002:332-357
DetailedRecord(username, repos) ==
    [username |-> username,
     commitCount |-> SumOf(repos, "total"),
     repoCount |-> Len(repos),
     stats |->
        [commitsPerDay |-> MathRound(SumOf(repos, "monthly"), 30),
         commitsPerWeek |-> SumOf(repos, "weekly"),
         weeklyCommits |-> SumOf(repos, "weekly"),
         monthlyCommits |-> SumOf(repos, "monthly"),
         totalCommits |-> SumOf(repos, "total")]]

InitDetailed ==
    /\ now = 0
    /\ responseCache = [k \in {} |-> NoEntry]
    /\ call = [c \in {1} |-> IdleCall]
    /\ lastStore = [k \in {} |-> NoEntry]
    /\ batch = None
    /\ agg = [pc |-> "idle", username |-> <<>>, repos |-> <<>>,
              result |-> None]
    /\ page = None
    /\ input = None

\* part_002:234-235, 251-285: detailedAnalysis is called for an account
DetailedAnalysisCalled ==
    /\ agg.pc = "idle"
    /\ \E n \in 0..MaxRepos :
        agg' = [agg EXCEPT !.pc = "paging", !.username = <<"a">>,
                   !.repos = [i \in 1..n |-> RepoStarted]]
    /\ UNCHANGED <<now, responseCache, call, lastStore, batch, page, input>>

\* part_002:279-297: a page request of a repository is answered
PageArrives ==
    /\ agg.pc = "paging"
    /\ \E i \in DOMAIN agg.repos, commits \in CommitPages :
        /\ ~agg.repos[i].settled
        /\ agg' = [agg EXCEPT !.repos[i] = PageTaken(@, commits)]
    /\ UNCHANGED <<now, responseCache, call, lastStore, batch, page, input>>

\* part_002:298-304: a page request of a repository fails
PageRequestFails ==
    /\ agg.pc = "paging"
    /\ \E i \in DOMAIN agg.repos :
        /\ ~agg.repos[i].settled
        /\ agg' = [agg EXCEPT !.repos[i] = PageFailed(@)]
    /\ UNCHANGED <<now, responseCache, call, lastStore, batch, page, input>>

\* part_002:267, 330-357: every callback has returned
DetailedAnalysisReturns ==
    /\ agg.pc = "paging"
    /\ \A i \in DOMAIN agg.repos : agg.repos[i].settled
    /\ agg' = [agg EXCEPT !.pc = "done",
                  !.result = DetailedRecord(agg.username, agg.repos)]
    /\ UNCHANGED <<now, responseCache, call, lastStore, batch, page, input>>

NextDetailed ==
    \/ DetailedAnalysisCalled
    \/ PageArrives
    \/ PageRequestFails
    \/ DetailedAnalysisReturns

\* every request is answered or fails, and every continuation runs
SpecDetailed ==
    InitDetailed /\ [][NextDetailed]_vars /\ WF_vars(NextDetailed)

(***************************************************************************)
(* efficientAnalysis (src/unnamed/part_002:361-496), the strategy for      *)
(* accounts of more than five repositories: three commit searches one      *)
(* after the other and, when one of them fails, the participation          *)
(* statistics of a sample of the repositories, extrapolated.  agg holds    *)
(* the locals totalCommitCount, weeklyCommits and monthlyCommits and, in   *)
(* sample, the results of the sampled repositories' callbacks.             *)
(***************************************************************************)
\* part_002:234: the strategy is chosen for more than five repositories
RepoCounts == {6, 12}

\* part_002:412
SampleSize == 10

\* total_count of a commit search
SearchCounts == {7}

\* the owner's weekly commit counts, oldest week first
OwnerWeeks == {<<1, 0, 2, 3, 4>>}

\* part_002:432-436: the age of a repository in weeks
RepoAgeInWeeks == 8

Pending == [pending |-> TRUE]

RECURSIVE SumSeq(_)
SumSeq(q) == IF q = <<>> THEN 0 ELSE Head(q) + SumSeq(Tail(q))

\* Array.prototype.slice(-n)
LastN(q, n) == SubSeq(q, Max(1, Len(q) - n + 1), Len(q))

\* part_002:424-446
Contributions(owner) ==
    LET weeklyContributions == IF owner = <<>> THEN 0 ELSE owner[Len(owner)]
        monthlyContributions == SumSeq(LastN(owner, 4))
    IN  [weekly |-> weeklyContributions,
         monthly |-> monthlyContributions,
         total |-> IF SumSeq(owner) # 0 THEN SumSeq(owner)
                   ELSE MathRound(monthlyContributions * RepoAgeInWeeks, 4)]

\* part_002:469-474
Extrapolated(count, repoCount, sampleLength) ==
    IF sampleLength > 0 THEN MathRound(count * repoCount, sampleLength)
    ELSE count

\* part_002:477-495
EfficientRecord(a) ==
    [username |-> a.username,
     commitCount |-> a.totalCommitCount,
     repoCount |-> a.repoCount,
     stats |->
        [commitsPerDay |-> MathRound(a.monthlyCommits, 30),
         commitsPerWeek |-> a.weeklyCommits,
         weeklyCommits |-> a.weeklyCommits,
         monthlyCommits |-> a.monthlyCommits,
         totalCommits |-> a.totalCommitCount]]

InitEfficient ==
    /\ now = 0
    /\ responseCache = [k \in {} |-> NoEntry]
    /\ call = [c \in {1} |-> IdleCall]
    /\ lastStore = [k \in {} |-> NoEntry]
    /\ batch = None
    /\ agg = [pc |-> "idle", username |-> <<>>, repoCount |-> 0,
              totalCommitCount |-> 0, weeklyCommits |-> 0,
              monthlyCommits |-> 0, sample |-> <<>>, result |-> None]
    /\ page = None
    /\ input = None

\* part_002:236-237, 361-390: efficientAnalysis is called; the first search
\* is requested
EfficientAnalysisCalled ==
    /\ agg.pc = "idle"
    /\ \E n \in RepoCounts :
        agg' = [agg EXCEPT !.pc = "searchTotal", !.username = <<"a">>,
                   !.repoCount = n]
    /\ UNCHANGED <<now, responseCache, call, lastStore, batch, page, input>>

\* part_002:386-404: a search is answered
SearchAnswered ==
    /\ \E count \in SearchCounts :
        \/ /\ agg.pc = "searchTotal"
           /\ agg' = [agg EXCEPT !.totalCommitCount = count,
                         !.pc = "searchMonthly"]
        \/ /\ agg.pc = "searchMonthly"
           /\ agg' = [agg EXCEPT !.monthlyCommits = count,
                         !.pc = "searchWeekly"]
        \/ /\ agg.pc = "searchWeekly"
           /\ LET a == [agg EXCEPT !.weeklyCommits = count]
              IN  agg' = [a EXCEPT !.pc = "done",
                             !.result = EfficientRecord(a)]
    /\ UNCHANGED <<now, responseCache, call, lastStore, batch, page, input>>

\* part_002:405-421: a search fails; the participation statistics of the
\* sampled repositories are requested
SearchFails ==
    /\ agg.pc \in {"searchTotal", "searchMonthly", "searchWeekly"}
    /\ agg' = [agg EXCEPT !.pc = "sampling",
                  !.sample = [i \in 1..Min(SampleSize, agg.repoCount) |->
                                 Pending]]
    /\ UNCHANGED <<now, responseCache, call, lastStore, batch, page, input>>

\* part_002:417-451: the statistics of a sampled repository arrive
ParticipationArrives ==
    /\ agg.pc = "sampling"
    /\ \E i \in DOMAIN agg.sample, owner \in OwnerWeeks :
        /\ agg.sample[i] = Pending
        /\ agg' = [agg EXCEPT !.sample[i] = Contributions(owner)]
    /\ UNCHANGED <<now, responseCache, call, lastStore, batch, page, input>>

\* part_002:452-458: the request for a sampled repository fails
ParticipationFails ==
    /\ agg.pc = "sampling"
    /\ \E i \in DOMAIN agg.sample :
        /\ agg.sample[i] = Pending
        /\ agg' = [agg EXCEPT !.sample[i] = NoActivity]
    /\ UNCHANGED <<now, responseCache, call, lastStore, batch, page, input>>

\* part_002:462-495: every sampled repository has a result
SampleSettles ==
    /\ agg.pc = "sampling"
    /\ \A i \in DOMAIN agg.sample : agg.sample[i] # Pending
    /\ LET n == Len(agg.sample)
           weekly == agg.weeklyCommits
                     + SumSeq([i \in 1..n |-> agg.sample[i].weekly])
           monthly == agg.monthlyCommits
                      + SumSeq([i \in 1..n |-> agg.sample[i].monthly])
           total == agg.totalCommitCount
                    + SumSeq([i \in 1..n |-> agg.sample[i].total])
           a == [agg EXCEPT
                    !.weeklyCommits = Extrapolated(weekly, agg.repoCount, n),
                    !.monthlyCommits = Extrapolated(monthly, agg.repoCount, n),
                    !.totalCommitCount = Extrapolated(total, agg.repoCount, n)]
       IN  agg' = [a EXCEPT !.pc = "done", !.result = EfficientRecord(a)]
    /\ UNCHANGED <<now, responseCache, call, lastStore, batch, page, input>>

NextEfficient ==
    \/ EfficientAnalysisCalled
    \/ SearchAnswered
    \/ SearchFails
    \/ ParticipationArrives
    \/ ParticipationFails
    \/ SampleSettles

SpecEfficient == InitEfficient /\ [][NextEfficient]_vars

(***************************************************************************)
(* The wrapped requests and their cache keys (github.ts:40-187,            *)
(* GitHubUtils.ts:205-226).  A request is an endpoint with its parameters; *)
(* the remote API answers a request with a value of that request.          *)
(* agg holds the request being made and the number of requests made.       *)
(***************************************************************************)
MaxIssued == 2

\* user and repository names: letters, digits and hyphens
KeyNames == {<<"a">>, <<"a", "-", "b">>, <<"b", "-", "c">>, <<"c">>}
KeyShas == {<<"c">>, <<"f">>}

Requests ==
    {[endpoint |-> e, username |-> u] :
        e \in {"users.getByUsername", "repos.listForUser", "search.commits",
               "search.issuesAndPullRequests"},
        u \in KeyNames}
    \cup {[endpoint |-> "repos.listCommits", username |-> u, repo |-> r] :
            u \in KeyNames, r \in KeyNames}
    \cup {[endpoint |-> "repos.getCommit", username |-> u, repo |-> r,
           sha |-> h] : u \in KeyNames, r \in KeyNames, h \in KeyShas}
    \cup {[endpoint |-> "getCommitCountForRepo", owner |-> o, repo |-> r,
           username |-> u] : o \in KeyNames, r \in KeyNames, u \in KeyNames}

\* GitHubUtils.ts:211, `commits-${owner}-${repo}-${username}`
CommitCountKey(owner, repo, username) ==
    <<"c", "o", "m", "m", "i", "t", "s", "-">> \o owner \o <<"-">> \o repo
        \o <<"-">> \o username

\* the cache key a wrapped request is made with
KeyOf(req) ==
    CASE req.endpoint = "users.getByUsername" -> UserKey(req.username)
      [] req.endpoint = "repos.listForUser" -> ReposKey(req.username)
      [] req.endpoint = "search.commits" -> TotalCommitsKey(req.username)
      [] req.endpoint = "search.issuesAndPullRequests" ->
            PullRequestsKey(req.username)
      [] req.endpoint = "repos.listCommits" ->
            CommitsKey(req.username, req.repo)
      [] req.endpoint = "repos.getCommit" ->
            CommitKey(req.username, req.repo, req.sha)
      [] req.endpoint = "getCommitCountForRepo" ->
            CommitCountKey(req.owner, req.repo, req.username)

\* the cache duration a wrapped request is made with
TtlOf(req) ==
    CASE req.endpoint = "repos.listForUser" -> HalfHourMs
      [] req.endpoint = "repos.listCommits" -> QuarterHourMs
      [] OTHER -> HourMs

\* what the remote API answers a request with
AnswerTo(req) == [of |-> req]

InitKeys ==
    /\ now = 0
    /\ responseCache = [k \in {} |-> NoEntry]
    /\ call = [c \in {1} |-> IdleCall]
    /\ lastStore = [k \in {} |-> NoEntry]
    /\ batch = None
    /\ agg = [request |-> None, issued |-> 0]
    /\ page = None
    /\ input = None

\* a wrapped request is made
RequestIssued ==
    /\ call[1].pc = "idle"
    /\ agg.issued < MaxIssued
    /\ \E req \in Requests :
        /\ agg' = [request |-> req, issued |-> agg.issued + 1]
        /\ Enter(1, KeyOf(req), TtlOf(req), DefaultMaxRetries,
                 DefaultInitialDelay)
    /\ UNCHANGED <<now, responseCache, lastStore, batch, page, input>>

\* the remote API answers
RequestAnswered ==
    /\ FnResolve(1, AnswerTo(agg.request))
    /\ UNCHANGED <<batch, agg, page, input>>

\* the caller takes the outcome
RequestTaken ==
    /\ Done(1)
    /\ call' = [call EXCEPT ![1] = IdleCall]
    /\ agg' = [agg EXCEPT !.request = None]
    /\ UNCHANGED <<now, responseCache, lastStore, batch, page, input>>

NextKeys == RequestIssued \/ RequestAnswered \/ RequestTaken

SpecKeys == InitKeys /\ [][NextKeys]_vars

(***************************************************************************)
(* The Home component (src/app/page.tsx:10-131).  page holds its state     *)
(* (users, failedUsers, loading, loadingInfo), the one handleAddUsers      *)
(* invocation the input component allows at a time (UserInput.tsx:219: its *)
(* controls are disabled while a submission is pending) with its locals,   *)
(* and the history: calls counts the submissions, fetched holds the        *)
(* usernames fetchGithubUserData was called for and refetched those it was *)
(* called for more than once, retried is the username of the latest retry, *)
(* toasts are the toasts of the latest handler.                            *)
(* fetchGithubUserData is taken by its outcome: a user record, whose       *)
(* username is the login the remote API reports, or an error result.       *)
(***************************************************************************)
MaxList == 2
MaxCalls == 2

LowerSeq ==
    <<"a", "b", "c", "d", "e", "f", "g", "h", "i", "j", "k", "l", "m",
      "n", "o", "p", "q", "r", "s", "t", "u", "v", "w", "x", "y", "z">>
UpperSeq ==
    <<"A", "B", "C", "D", "E", "F", "G", "H", "I", "J", "K", "L", "M",
      "N", "O", "P", "Q", "R", "S", "T", "U", "V", "W", "X", "Y", "Z">>

ToLower(ch) ==
    IF \E i \in 1..26 : UpperSeq[i] = ch
    THEN LowerSeq[CHOOSE i \in 1..26 : UpperSeq[i] = ch]
    ELSE ch

\* the login of the account a handle names: the remote API looks handles up
\* without regard to case
Login(username) == [i \in DOMAIN username |-> ToLower(username[i])]

PageNames == {<<"a">>, <<"A">>, <<"b">>}
NoName == <<>>

RECURSIVE ListsOf(_)
ListsOf(n) ==
    IF n = 0 THEN {<<>>}
    ELSE ListsOf(n - 1)
            \cup {Append(l, u) : l \in {x \in ListsOf(n - 1) : Len(x) = n - 1},
                                 u \in PageNames}

\* github.ts:152-174 for the caller: the user record or the error result
FetchOutcomes(username) ==
    { [username |-> Login(username)],
      [error |-> [message |-> StatusText(404)]] }

\* page.tsx:51: result && "error" in result
IsErrorResult(result) == "error" \in DOMAIN result

Counts(success, errors) == [success |-> success, errors |-> errors]

IdlePage ==
    [users |-> <<>>, failedUsers |-> <<>>, loading |-> FALSE, loadingInfo |-> 0,
     pc |-> "idle", usernames |-> <<>>, uniqueUsernames |-> <<>>, k |-> 0,
     successfulUsers |-> <<>>, erroredUsers |-> <<>>,
     ret |-> None, toasts |-> <<>>,
     calls |-> 0, fetched |-> {}, refetched |-> {}, retried |-> NoName,
     waited |-> 0]

\* page.tsx:68: the delay after a fetch, in milliseconds
AddDelayMs == 1000

Busy(p) == p.pc \in {"fetching", "pause"}

\* page.tsx:25-27
Known(users, failedUsers, username) ==
    \/ \E i \in DOMAIN users : users[i].username = username
    \/ \E i \in DOMAIN failedUsers : failedUsers[i].username = username

UniqueUsernamesAcceptedOnly(usernames, users, failedUsers) ==
    SelectSeq(usernames, LAMBDA u : ~Known(users, <<>>, u))

UniqueUsernamesFailedOnly(usernames, users, failedUsers) ==
    SelectSeq(usernames, LAMBDA u : ~Known(<<>>, failedUsers, u))

\* page.tsx:24-28
UniqueUsernames(usernames, users, failedUsers) ==
    SelectSeq(usernames, LAMBDA u : ~Known(users, failedUsers, u))

\* page.tsx:129, 216-220
Without(failedUsers, username) ==
    SelectSeq(failedUsers, LAMBDA f : f.username # username)

\* page.tsx:48: fetchGithubUserData(uniqueUsernames[k]) is called
Fetching(p, k) ==
    [p EXCEPT !.pc = "fetching", !.k = k,
        !.fetched = @ \cup {p.uniqueUsernames[k]},
        !.refetched = @ \cup ({p.uniqueUsernames[k]} \cap p.fetched)]

\* page.tsx:20-48: handleAddUsers(usernames) up to its first await, in the
\* render whose lists are users and failedUsers
Begin(p, usernames, users, failedUsers) ==
    LET unique == UniqueUsernames(usernames, users, failedUsers)
    IN  IF usernames = <<>>
        THEN [p EXCEPT !.pc = "returned", !.ret = Counts(0, 0),
                 !.usernames = usernames, !.toasts = <<>>]
        ELSE IF unique = <<>>
        THEN [p EXCEPT !.pc = "returned", !.ret = Counts(0, 0),
                 !.usernames = usernames, !.toasts = <<"nothing to do">>]
        ELSE Fetching([p EXCEPT !.loading = TRUE, !.loadingInfo = Len(unique),
                          !.usernames = usernames, !.uniqueUsernames = unique,
                          !.successfulUsers = <<>>, !.erroredUsers = <<>>,
                          !.ret = None, !.toasts = <<>>],
                      1)

PausesNever(uniqueUsernames) == FALSE

\* page.tsx:67
Pauses(uniqueUsernames) == Len(uniqueUsernames) > 1

\* page.tsx:88-111
Toasts(successfulUsers, erroredUsers) ==
    (IF Len(successfulUsers) > 0 THEN <<"success">> ELSE <<>>)
    \o (IF Len(erroredUsers) > 0
        THEN IF Len(successfulUsers) = 0
             THEN <<"all failed">> ELSE <<"some failed">>
        ELSE <<>>)

ReturnedCountsFirstOnly(successfulUsers, erroredUsers) ==
    Counts(Min(1, Len(successfulUsers)), Len(erroredUsers))

\* page.tsx:113-116
ReturnedCounts(successfulUsers, erroredUsers) ==
    Counts(Len(successfulUsers), Len(erroredUsers))

FinallySkipped(p) == p

\* page.tsx:121-124
Finally(p) == [p EXCEPT !.loading = FALSE, !.loadingInfo = 0]

\* page.tsx:46, 78-124: the loop test at index k and, past the end of the
\* list, the updates of the lists, the toasts, the return and the finally
Advance(p, k) ==
    IF k <= Len(p.uniqueUsernames)
    THEN Fetching(p, k)
    ELSE Finally([p EXCEPT !.users = @ \o p.successfulUsers,
             !.failedUsers = @ \o p.erroredUsers,
             !.toasts = Toasts(p.successfulUsers, p.erroredUsers),
             !.ret = ReturnedCounts(p.successfulUsers, p.erroredUsers),
             !.pc = "returned", !.usernames = <<>>, !.uniqueUsernames = <<>>,
             !.k = 0, !.successfulUsers = <<>>, !.erroredUsers = <<>>])

\* page.tsx:48-63: the result of the fetch is sorted into the two lists
Taken(p, result) ==
    IF IsErrorResult(result)
    THEN [p EXCEPT !.erroredUsers =
                Append(@, [username |-> p.uniqueUsernames[p.k],
                           error |-> result.error.message])]
    ELSE [p EXCEPT !.successfulUsers = Append(@, result)]

\* UserInput.tsx:39, 167, page.tsx:20-48: a list of usernames is submitted
HandleAddUsers ==
    /\ ~Busy(page)
    /\ page.calls < MaxCalls
    /\ \E usernames \in ListsOf(MaxList) :
        page' = Begin([page EXCEPT !.calls = @ + 1, !.retried = NoName],
                      usernames, page.users, page.failedUsers)
    /\ UNCHANGED <<now, responseCache, call, lastStore, batch, agg, input>>

\* page.tsx:48-68: the fetch settles; with more than one username a pause
\* of one second follows
FetchSettles ==
    /\ page.pc = "fetching"
    /\ \E result \in FetchOutcomes(page.uniqueUsernames[page.k]) :
        page' = IF Pauses(page.uniqueUsernames)
                THEN [Taken(page, result) EXCEPT !.pc = "pause",
                                                 !.waited = 0]
                ELSE Advance(Taken(page, result), page.k + 1)
    /\ UNCHANGED <<now, responseCache, call, lastStore, batch, agg, input>>

\* page.tsx:68: a second of the delay passes; waited is the time since the
\* timer was set
DelayPasses ==
    /\ page.pc = "pause"
    /\ page.waited < AddDelayMs
    /\ page' = [page EXCEPT !.waited = @ + 1000]
    /\ UNCHANGED <<now, responseCache, call, lastStore, batch, agg, input>>

\* page.tsx:66-68, 46: the timer fires
DelayEnds ==
    /\ page.pc = "pause"
    /\ page.waited >= AddDelayMs
    /\ page' = Advance([page EXCEPT !.waited = 0], page.k + 1)
    /\ UNCHANGED <<now, responseCache, call, lastStore, batch, agg, input>>

\* page.tsx:128-131, 208: Retry is clicked on a row of the failed list.
\* handleAddUsers is the one of the render that shows the row: its
\* failedUsers still holds the row that setFailedUsers is about to remove.
HandleRetryUser ==
    /\ \E i \in DOMAIN page.failedUsers :
        LET username == page.failedUsers[i].username
            removed == [page EXCEPT !.failedUsers = Without(@, username),
                           !.retried = username]
            unique == UniqueUsernames(<<username>>, page.users,
                                      page.failedUsers)
        IN  IF unique = <<>>
            THEN page' = [removed EXCEPT !.toasts = <<"nothing to do">>]
            ELSE /\ ~Busy(page)
                 /\ page' = Begin(removed, <<username>>, page.users,
                                  page.failedUsers)
    /\ UNCHANGED <<now, responseCache, call, lastStore, batch, agg, input>>

\* page.tsx:213-220: Dismiss is clicked on a row of the failed list
Dismiss ==
    /\ \E i \in DOMAIN page.failedUsers :
        page' = [page EXCEPT
                    !.failedUsers = Without(@, page.failedUsers[i].username),
                    !.retried = NoName]
    /\ UNCHANGED <<now, responseCache, call, lastStore, batch, agg, input>>

InitPage ==
    /\ now = 0
    /\ responseCache = [k \in {} |-> NoEntry]
    /\ call = [c \in {1} |-> IdleCall]
    /\ lastStore = [k \in {} |-> NoEntry]
    /\ batch = None
    /\ agg = None
    /\ page = IdlePage
    /\ input = None

(***************************************************************************)
(* SpecPage: lists of usernames are submitted one after the other, and     *)
(* rows of the failed list are retried or dismissed at any time.           *)
(***************************************************************************)
NextPage ==
    \/ HandleAddUsers
    \/ FetchSettles
    \/ DelayPasses
    \/ DelayEnds
    \/ HandleRetryUser
    \/ Dismiss

SpecPage == InitPage /\ [][NextPage]_vars

\* SpecPage where every fetch settles and every timer fires; what is
\* submitted or clicked, and when, is left open
FairSpecPage ==
    /\ SpecPage
    /\ WF_vars(FetchSettles)
    /\ WF_vars(DelayPasses)
    /\ WF_vars(DelayEnds)

(***************************************************************************)
(* SpecAdd: submissions only, no retry and no dismissal.                   *)
(***************************************************************************)
NextAdd ==
    \/ HandleAddUsers
    \/ FetchSettles
    \/ DelayPasses
    \/ DelayEnds

SpecAdd == InitPage /\ [][NextAdd]_vars

(***************************************************************************)
(* The UserInput component (src/components/UserInput.tsx:53-204) on the    *)
(* upload of a CSV file.  Papa.parse runs with header: true: the first     *)
(* line names the columns, each later line becomes an object that maps the *)
(* transformed column names to its fields, and lines of one empty field    *)
(* are skipped.  input holds the component's state (csvUsernames,          *)
(* isLoading), the position of the upload and, while the complete callback *)
(* runs, its locals.  The rows of results.data are drawn one at a turn of  *)
(* the forEach at 70-96; header, fields and index are of the latest row.   *)
(***************************************************************************)
MaxRows == 6

\* UserInput.tsx:121
AutoProcessLimit == 5

NoField == <<"undefined">>

UsernameColumn == <<"u", "s", "e", "r", "n", "a", "m", "e">>

\* the first lines of the files
HeaderLines ==
    { <<<<"U", "s", "e", "r", "n", "a", "m", "e", " ">>>>,
      <<<<"n">>>>,
      <<<<"n">>, UsernameColumn>>,
      <<<<"n">>, <<"1">>>> }

\* the fields of the later lines
Cells == {<<"b">>, <<" ", "c", " ">>, <<"1", "_">>, <<" ">>, <<>>}

\* UserInput.tsx:149
TransformHeader(header) == Trim([i \in DOMAIN header |-> ToLower(header[i])])

\* UserInput.tsx:148: a line of one empty field is no row of results.data
SkippedLine(fields) == fields = <<<<>>>>

\* the lines of a file with the given header that become rows
Lines(header) ==
    {fields \in [1..Len(header) -> Cells] : ~SkippedLine(fields)}

\* UserInput.tsx:147: the row object, its properties in the order they are
\* created
RowObject(header, fields) ==
    [i \in 1..Min(Len(header), Len(fields)) |->
        [key |-> header[i], value |-> fields[i]]]

\* a property name that is a canonical array index
IsArrayIndex(key) ==
    /\ key # <<>>
    /\ \A i \in DOMAIN key : key[i] \in Digits
    /\ Len(key) = 1 \/ key[1] # "0"

RECURSIVE Ascending(_)
Ascending(props) ==
    IF props = <<>> THEN <<>>
    ELSE LET m == CHOOSE i \in DOMAIN props :
                    \A j \in DOMAIN props :
                        parseInt(props[i].key) <= parseInt(props[j].key)
         IN  <<props[m]>>
                \o Ascending([i \in 1..(Len(props) - 1) |->
                                 IF i < m THEN props[i] ELSE props[i + 1]])

\* Object.values: the properties named by array indices come first, in
\* ascending order, then the others in the order they were created
ObjectValues(row) ==
    LET ordered ==
            Ascending(SelectSeq(row, LAMBDA f : IsArrayIndex(f.key)))
                \o SelectSeq(row, LAMBDA f : ~IsArrayIndex(f.key))
    IN  [i \in DOMAIN ordered |-> ordered[i].value]

\* row.username
Property(row, key) ==
    IF \E i \in DOMAIN row : row[i].key = key
    THEN row[CHOOSE i \in DOMAIN row : row[i].key = key].value
    ELSE NoField

\* UserInput.tsx:72
RowUsername(row) ==
    IF Truthy(Property(row, UsernameColumn))
    THEN Property(row, UsernameColumn)
    ELSE IF row = <<>> THEN NoField ELSE ObjectValues(row)[1]

IdleInput ==
    [pc |-> "idle", isLoading |-> FALSE, csvUsernames |-> <<>>,
     header |-> <<>>, fields |-> <<>>, index |-> 0,
     extractedUsernames |-> <<>>, invalidRows |-> <<>>, toasts |-> <<>>]

\* UserInput.tsx:74-95: one turn of the forEach
Extracted(i, header, fields) ==
    LET username == RowUsername(RowObject(header, fields))
        n == i.index + 1
        at == [i EXCEPT !.index = n, !.fields = fields]
    IN  IF Truthy(username) /\ Truthy(Trim(username))
        THEN IF ValidHandle(Trim(username))
             THEN [at EXCEPT !.extractedUsernames = Append(@, Trim(username))]
             ELSE [at EXCEPT !.invalidRows = Append(@, n)]
        ELSE [at EXCEPT !.invalidRows = Append(@, n)]

\* UserInput.tsx:99-105
Warning(invalidRows) ==
    IF Len(invalidRows) > 0 THEN <<"warning">> ELSE <<>>

\* UserInput.tsx:154-167: processCsvUsers up to its await of onAddUsers
ProcessCsvUsers(i, usernames) ==
    /\ input' = [i EXCEPT !.pc = "processing", !.isLoading = TRUE]
    /\ page' = Begin([page EXCEPT !.calls = @ + 1, !.retried = NoName],
                     usernames, page.users, page.failedUsers)

\* UserInput.tsx:53-64, 147-149: a file is chosen and its first line read
FileChosen ==
    /\ input.pc = "idle"
    /\ \E line \in HeaderLines :
        input' = [input EXCEPT !.pc = "rows", !.isLoading = TRUE,
                     !.header = [c \in DOMAIN line |->
                                    TransformHeader(line[c])]]
    /\ UNCHANGED <<now, responseCache, call, lastStore, batch, agg, page>>

\* UserInput.tsx:70-96: the next row of the file
RowRead ==
    /\ input.pc = "rows"
    /\ input.index < MaxRows
    /\ \E fields \in Lines(input.header) :
        input' = Extracted(input, input.header, fields)
    /\ UNCHANGED <<now, responseCache, call, lastStore, batch, agg, page>>

\* UserInput.tsx:98-137: the rows are through
RowsEnd ==
    /\ input.pc = "rows"
    /\ LET extractedUsernames == input.extractedUsernames
           left == [input EXCEPT !.header = <<>>, !.fields = <<>>,
                       !.index = 0, !.extractedUsernames = <<>>,
                       !.invalidRows = <<>>,
                       !.toasts = Warning(input.invalidRows)]
       IN  IF Len(extractedUsernames) > 0
           THEN IF Len(extractedUsernames) <= AutoProcessLimit
                THEN ProcessCsvUsers(
                        [left EXCEPT !.csvUsernames = extractedUsernames],
                        extractedUsernames)
                ELSE /\ input' = [left EXCEPT !.pc = "preview",
                                     !.csvUsernames = extractedUsernames,
                                     !.isLoading = FALSE,
                                     !.toasts = @ \o <<"parsed">>]
                     /\ page' = page
           ELSE /\ input' = [left EXCEPT !.pc = "done", !.isLoading = FALSE,
                                !.toasts = @ \o <<"none valid">>]
                /\ page' = page
    /\ UNCHANGED <<now, responseCache, call, lastStore, batch, agg>>

\* UserInput.tsx:318: Process CSV is clicked
ProcessCsv ==
    /\ input.pc = "preview"
    /\ ProcessCsvUsers([input EXCEPT !.toasts = <<>>], input.csvUsernames)
    /\ UNCHANGED <<now, responseCache, call, lastStore, batch, agg>>

\* UserInput.tsx:199-204, 327: Cancel is clicked
CancelCsvProcessing ==
    /\ input.pc = "preview"
    /\ input' = [input EXCEPT !.pc = "done", !.csvUsernames = <<>>,
                    !.toasts = <<"cancelled">>]
    /\ UNCHANGED <<now, responseCache, call, lastStore, batch, agg, page>>

\* UserInput.tsx:167-195: onAddUsers has returned
CsvProcessed ==
    /\ input.pc = "processing"
    /\ page.pc = "returned"
    /\ input' = [input EXCEPT !.pc = "done", !.isLoading = FALSE,
                    !.csvUsernames = <<>>,
                    !.toasts = IF page.ret.success > 0
                               THEN <<"processed">> ELSE <<>>]
    /\ UNCHANGED <<now, responseCache, call, lastStore, batch, agg, page>>

InitCsv ==
    /\ now = 0
    /\ responseCache = [k \in {} |-> NoEntry]
    /\ call = [c \in {1} |-> IdleCall]
    /\ lastStore = [k \in {} |-> NoEntry]
    /\ batch = None
    /\ agg = None
    /\ page = IdlePage
    /\ input = IdleInput

(***************************************************************************)
(* SpecCsv: one CSV file is uploaded to a page that lists nobody yet.      *)
(***************************************************************************)
NextCsv ==
    \/ FileChosen
    \/ RowRead
    \/ RowsEnd
    \/ ProcessCsv
    \/ CancelCsvProcessing
    \/ CsvProcessed
    \/ FetchSettles
    \/ DelayPasses
    \/ DelayEnds

SpecCsv == InitCsv /\ [][NextCsv]_vars

(***************************************************************************)
(* Properties of executeWithRetry, checked under SpecRetry.                *)
(***************************************************************************)

\* "quota-exhausted" as the specification words it: status 403 together with
\* x-ratelimit-remaining "0"
QuotaExhaustedResponse(e) == e.status = 403 /\ e.remaining = "0"

Begun(c) == call[c].pc = "idle" /\ call'[c].pc # "idle"
Rejected(c) ==
    call[c].pc = "awaiting" /\ call'[c].rejected = call[c].rejected + 1
Fulfilled(c) ==
    /\ call[c].pc = "awaiting"
    /\ call'[c].pc = "returned"
    /\ call'[c].rejected = call[c].rejected

\* C1: within one call the request function is invoked at most
\* maxRetries + 1 times; when every attempt failed as quota-exhausted it was
\* invoked exactly maxRetries + 1 times and the call failed with
\* RateLimitError.
C1_RetryBound ==
    \A c \in DOMAIN call :
        /\ call[c].invoked <= call[c].maxRetries + 1
        /\ (Done(c) /\ ~call[c].hit /\ call[c].allQuota) =>
              /\ call[c].invoked = call[c].maxRetries + 1
              /\ call[c].pc = "thrown"
              /\ call[c].res = RateLimitError

C1_Witness ==
    \E c \in DOMAIN call :
        /\ call[c].pc = "thrown"
        /\ call[c].res = RateLimitError
        /\ call[c].maxRetries = 2
        /\ call[c].invoked = 3
        /\ call[c].allQuota

\* C2: when the request function rejects with an error that is not
\* quota-exhausted, the call ends at once throwing that same error: no further
\* invocation, no sleep, and the cache is as it was before the call.
C2_FailFast ==
    [][\A c \in DOMAIN call :
          /\ (Rejected(c) /\ ~QuotaExhaustedResponse(call'[c].lastErr)) =>
                /\ call'[c].pc = "thrown"
                /\ call'[c].res = call'[c].lastErr
                /\ call'[c].invoked = call[c].invoked
                /\ call'[c].sleeps = call[c].sleeps
                /\ call'[c].writes = 0
                /\ responseCache' = responseCache
          /\ call[c].pc = "thrown" => call'[c] \in {call[c], IdleCall}
      ]_vars

C2_Witness ==
    \E c \in DOMAIN call :
        /\ call[c].pc = "thrown"
        /\ call[c].res = ApiError("HttpError", 404, TRUE, "59", NoHeader)
        /\ call[c].invoked = 2
        /\ call[c].cacheKey = <<"k", "1">>
        /\ Get(responseCache, <<"k", "1">>) # NoEntry

\* C3: a call whose cache key has an unexpired entry returns the stored value
\* and never invokes the request function; so a call made within the TTL
\* window of an earlier fetch under the same key yields that fetch's value.
C3_CacheIdempotence ==
    [][\A c \in DOMAIN call :
          (Begun(c) /\ call'[c].cacheKey # NoKey) =>
              LET k == call'[c].cacheKey
                  served(v) == /\ call'[c].pc = "returned"
                               /\ call'[c].res = v
                               /\ call'[c].invoked = 0
              IN  /\ (Get(responseCache, k) # NoEntry
                        /\ now < Get(responseCache, k).expiresAt)
                        => served(Get(responseCache, k).data)
                  /\ (Get(lastStore, k) # NoEntry
                        /\ now < Get(lastStore, k).at + Get(lastStore, k).ttl)
                        => served(Get(lastStore, k).v)
      ]_vars

C3_Witness ==
    \E c \in DOMAIN call :
        /\ call[c].pc = "returned"
        /\ call[c].hit
        /\ call[c].invoked = 0
        /\ call[c].cacheKey = <<"k", "1">>
        /\ Get(lastStore, <<"k", "1">>) # NoEntry
        /\ call[c].res = Get(lastStore, <<"k", "1">>).v
        /\ now > Get(lastStore, <<"k", "1">>).at

\* C4: a value is served from the cache only while now < expiresAt; an
\* expired or missing entry is left as it is and the request function is
\* invoked; an entry changes only by being replaced with the whole result of
\* a call that just succeeded.
C4_LazyExpiry ==
    [][\A c \in DOMAIN call :
          /\ Begun(c) =>
               LET k == call'[c].cacheKey
                   usable == /\ k # NoKey
                             /\ Get(responseCache, k) # NoEntry
                             /\ now < Get(responseCache, k).expiresAt
               IN  /\ (call'[c].pc = "returned" \/ call'[c].hit) => usable
                   /\ ~usable => /\ call'[c].pc = "awaiting"
                                 /\ call'[c].invoked = 1
                   /\ responseCache' = responseCache
          /\ \A k \in CacheKeys :
               Get(responseCache', k) # Get(responseCache, k) =>
                   \E d \in DOMAIN call :
                       /\ Fulfilled(d)
                       /\ call[d].cacheKey = k
                       /\ Get(responseCache', k) =
                            [data |-> call'[d].res, timestamp |-> now,
                             expiresAt |-> now + call[d].cacheDuration]
      ]_vars

C4_Witness ==
    \E c \in DOMAIN call :
        /\ call[c].pc = "awaiting"
        /\ call[c].invoked = 1
        /\ call[c].cacheKey = <<"k", "1">>
        /\ Get(responseCache, <<"k", "1">>) # NoEntry
        /\ Get(responseCache, <<"k", "1">>).expiresAt = now
        /\ Get(responseCache, <<"k", "1">>).timestamp < now

\* C5: when a call succeeds by an attempt, with a cache key the cache then
\* maps that key to the returned result, expiring cacheDuration after the
\* completion, and holds every other key as before; without a cache key the
\* cache is unchanged.
C5_StoreOnSuccess ==
    [][\A c \in DOMAIN call :
          Fulfilled(c) =>
              IF call[c].cacheKey # NoKey
              THEN /\ Get(responseCache', call[c].cacheKey).data = call'[c].res
                   /\ Get(responseCache', call[c].cacheKey).expiresAt =
                         now' + call[c].cacheDuration
                   /\ \A k \in CacheKeys \ {call[c].cacheKey} :
                         Get(responseCache', k) = Get(responseCache, k)
              ELSE /\ responseCache' = responseCache
                   /\ call'[c].writes = 0
      ]_vars

C5_Witness ==
    \E c \in DOMAIN call :
        /\ call[c].pc = "returned"
        /\ ~call[c].hit
        /\ call[c].sleeps >= 1
        /\ call[c].cacheKey = <<"k", "1">>
        /\ call[c].cacheDuration = 2000
        /\ Get(responseCache, <<"k", "1">>).data = call[c].res
        /\ Get(responseCache, <<"k", "1">>).expiresAt = now + 2000
        /\ Get(responseCache, <<"k", "2">>) # NoEntry


(***************************************************************************)
(* Properties of executeInBatches, checked under SpecBatch.                *)
(***************************************************************************)

\* C6: for any batchSize >= 1 and any completion order, the returned array
\* is as long as the input and position r holds the outcome (value or error)
\* of request r.
C6_BatchOrder ==
    (batch.pc = "returned" /\ batch.batchSize >= 1) =>
        /\ Len(batch.results) = batch.n
        /\ \A r \in 1..batch.n :
              /\ Done(r)
              /\ batch.results[r] = call[r].res

C6_Witness ==
    /\ batch.pc = "returned"
    /\ batch.n = 3
    /\ batch.batchSize = 2
    /\ batch.order = <<2, 1, 3>>
    /\ batch.results[1] # batch.results[2]
    /\ batch.results[3] # batch.results[1]

\* C7: executeInBatches never rejects; every request of a group is invoked
\* whatever its siblings and the earlier groups did, and every outcome
\* reported so far, a value or an error (RateLimitError included), stands at
\* its own request's position.
C7_SettleAll ==
    /\ batch.pc # "rejected"
    /\ \A r \in 1..Len(batch.results) :
          /\ r \in DOMAIN call
          /\ Done(r)
          /\ batch.results[r] = call[r].res
    /\ batch.pc = "group" => \A r \in Group : call[r].invoked >= 1
    /\ (batch.pc = "returned" /\ batch.batchSize >= 1) =>
          \A r \in 1..batch.n : r <= Len(batch.results)

C7_Witness ==
    /\ batch.pc = "returned"
    /\ batch.n = 3
    /\ batch.batchSize = 2
    /\ call[1].pc = "thrown"
    /\ call[1].res = RateLimitError
    /\ call[2].pc = "returned"
    /\ call[3].pc = "returned"
    /\ batch.results = <<RateLimitError, call[2].res, call[3].res>>

\* C8: a request of a later group is first invoked only when every request
\* of the earlier groups has settled and one second has passed since the
\* last of them settled.
C8_GroupsSequential ==
    [][\A r \in DOMAIN call :
          Begun(r) =>
              LET first == ((r - 1) \div batch.batchSize) * batch.batchSize + 1
              IN  /\ \A j \in 1..(first - 1) : Done(j)
                  /\ first > 1 => now >= batch.lastFinish + 1000
      ]_vars

C8_Witness ==
    /\ batch.pc = "group"
    /\ batch.n = 3
    /\ batch.batchSize = 2
    /\ batch.i = 2
    /\ call[3].pc = "awaiting"
    /\ call[1].res = RateLimitError
    /\ call[2].pc = "returned"
    /\ now = batch.lastFinish + 1000

(***************************************************************************)
(* Properties of fetchGithubUserData, checked under SpecAgg.               *)
(***************************************************************************)

IsValidationError(r) ==
    /\ "error" \in DOMAIN r
    /\ Head(r.error.message) = "Invalid GitHub username format: '"

\* C9: an aggregation of a handle that fails the handle grammar has sent no
\* request to the remote API, and once it is over its result is a validation
\* error, whichever way the handle was entered.
C9_ValidationFirst ==
    (agg.pc # "idle" /\ ~ValidHandle(agg.username)) =>
        /\ agg.remoteCalls = 0
        /\ agg.pc = "done" => IsValidationError(agg.result)

NumericFields(r) ==
    { r.commitCount, r.pullRequests, r.repoCount, r.stats.commitsPerDay,
      r.stats.commitsPerWeek, r.stats.weeklyCommits, r.stats.monthlyCommits,
      r.stats.totalCommits, r.stats.avgCommitSize }

\* C10: fetchGithubUserData never rejects: whatever the remote requests do,
\* it resolves either with an error result that carries a message or with a
\* user record whose numeric fields are all non-negative integers.
C10_TotalResult ==
    /\ agg.pc # "rejected"
    /\ agg.pc = "done" =>
          IF "error" \in DOMAIN agg.result
          THEN agg.result.error.message # <<>>
          ELSE \A x \in NumericFields(agg.result) : x \in Nat

C10_Witness ==
    /\ agg.pc = "done"
    /\ "stats" \in DOMAIN agg.result
    /\ agg.result.repoCount = 2
    /\ agg.result.commitCount = 6
    /\ agg.result.stats.monthlyCommits = 1
    /\ agg.result.stats.commitsPerWeek = 0
    /\ agg.result.stats.avgCommitSize = 4
    /\ agg.result.pullRequests = 0

\* C11: an aggregation that is past its profile fetch ends only with a
\* statistics record, whatever fails after it; and when the repository
\* listing fails the aggregation goes on with an empty repository list.
C11_ProfileOnlyFatal ==
    [][/\ (agg.pc \notin {"idle", "user", "done"} /\ agg'.pc = "done")
            => "stats" \in DOMAIN agg'.result
       /\ (agg.pc = "repos" /\ call[1].pc = "thrown" /\ agg' # agg)
            => /\ agg'.pc \notin {"done", "rejected"}
               /\ agg'.repos = <<>>
      ]_vars

UserNotFoundMessage(username) ==
    <<"GitHub user '">> \o username \o <<"' not found">>

\* the kind of failure a reader of the result can tell
FailureKind(r, username) ==
    IF r.error.message = UserNotFoundMessage(username) THEN "not found"
    ELSE IF r.error.message = RateLimitError.message THEN "rate limit"
    ELSE "api"

\* C12: when the profile fetch fails the aggregation ends with an error
\* result whose kind follows the cause: "not found", naming the username,
\* for a remote 404, "rate limit" for exhausted quota, "api" for the rest.
C12_ProfileFailureClassified ==
    [][(agg.pc = "user" /\ call[1].pc = "thrown" /\ agg' # agg) =>
          /\ agg'.pc = "done"
          /\ "error" \in DOMAIN agg'.result
          /\ FailureKind(agg'.result, agg.username) =
                IF call[1].res = RateLimitError THEN "rate limit"
                ELSE IF call[1].res.status = 404 THEN "not found"
                ELSE "api"
      ]_vars

(***************************************************************************)
(* Properties of the Home component, checked under SpecPage and SpecAdd.   *)
(***************************************************************************)

\* a step that submits a list to handleAddUsers
Submitted == page'.calls = page.calls + 1
\* a step in which fetchGithubUserData is called
FetchBegins == page'.pc = "fetching" /\ page.pc # "fetching"
\* a step in which handleAddUsers returns after its loop
LoopEnds == Busy(page) /\ page'.pc = "returned"

Range(q) == {q[i] : i \in DOMAIN q}

\* C13: a submitted username that equals the username of a record of the
\* accepted or of the failed list is not fetched; the usernames of the
\* submission that are fetched are the others, in their order, and nothing
\* else is ever fetched.
C13_KnownNotFetched ==
    [][/\ Submitted =>
            /\ \A i \in DOMAIN page'.usernames :
                  Known(page.users, page.failedUsers, page'.usernames[i]) =>
                      /\ page'.usernames[i] \notin Range(page'.uniqueUsernames)
                      /\ page'.fetched \ page.fetched # {page'.usernames[i]}
            /\ page'.uniqueUsernames =
                  SelectSeq(page'.usernames,
                      LAMBDA u : ~Known(page.users, page.failedUsers, u))
       /\ page'.fetched # page.fetched => FetchBegins
       /\ FetchBegins =>
            page'.fetched =
                page.fetched \cup {page'.uniqueUsernames[page'.k]}
      ]_vars

C13_Witness ==
    /\ page.pc = "fetching"
    /\ page.usernames = <<<<"a">>, <<"b">>>>
    /\ page.uniqueUsernames = <<<<"b">>>>
    /\ \E i \in DOMAIN page.failedUsers :
          page.failedUsers[i].username = <<"a">>
    /\ page.fetched = {<<"a">>, <<"b">>}
    /\ page.refetched = {}

\* C14: with submissions only, fetchGithubUserData is called at most once
\* for each username, also for one that occurs twice in a submitted list.
C14_FetchedOnce == page.refetched = {}

\* C15: when handleAddUsers returns after its loop, every username of the
\* filtered list has been fetched, the accepted list has gained one record
\* for each success and the failed list one record, username and message,
\* for each failure, in the order of the list, and the counts returned are
\* the numbers of the two, which add up to the length of the filtered list.
C15_PartialFailure ==
    [][LoopEnds =>
          LET unique == page.uniqueUsernames
              n == Len(unique)
              s == SubSeq(page'.users, Len(page.users) + 1, Len(page'.users))
              e == SubSeq(page'.failedUsers, Len(page.failedUsers) + 1,
                          Len(page'.failedUsers))
          IN  /\ Range(unique) \subseteq page'.fetched
              /\ page.k = n
              /\ SubSeq(page'.users, 1, Len(page.users)) = page.users
              /\ SubSeq(page'.failedUsers, 1, Len(page.failedUsers)) =
                    page.failedUsers
              /\ Len(s) + Len(e) = n
              /\ page'.ret = Counts(Len(s), Len(e))
              /\ \E ok \in [1..n -> BOOLEAN] :
                    LET good == SelectSeq([i \in 1..n |-> i], LAMBDA i : ok[i])
                        bad == SelectSeq([i \in 1..n |-> i], LAMBDA i : ~ok[i])
                    IN  /\ s = [j \in 1..Len(good) |->
                                   [username |-> Login(unique[good[j]])]]
                        /\ Len(e) = Len(bad)
                        /\ \A j \in 1..Len(bad) :
                              /\ e[j].username = unique[bad[j]]
                              /\ e[j].error # <<>>
      ]_vars

C15_Witness ==
    /\ page.pc = "returned"
    /\ page.calls = 1
    /\ page.ret = Counts(1, 1)
    /\ page.users = <<[username |-> <<"a">>]>>
    /\ page.failedUsers = <<[username |-> <<"b">>, error |-> StatusText(404)]>>
    /\ page.toasts = <<"success", "some failed">>

\* C16: a submission of an empty list, or of usernames that are all in the
\* accepted or the failed list, returns {success: 0, errors: 0} at once,
\* fetches nothing and leaves the two lists and the loading flag as they
\* were; unless the list is empty it signals that there is nothing to do.
C16_NothingToDo ==
    [][(/\ Submitted
        /\ \A i \in DOMAIN page'.usernames :
              Known(page.users, page.failedUsers, page'.usernames[i]))
        => /\ page'.pc = "returned"
           /\ page'.ret = Counts(0, 0)
           /\ page'.fetched = page.fetched
           /\ page'.users = page.users
           /\ page'.failedUsers = page.failedUsers
           /\ page'.loading = page.loading
           /\ page'.loadingInfo = page.loadingInfo
           /\ page'.toasts = IF page'.usernames = <<>> THEN <<>>
                             ELSE <<"nothing to do">>
      ]_vars

C16_Witness ==
    /\ page.pc = "returned"
    /\ page.calls = 2
    /\ page.retried = NoName
    /\ page.ret = Counts(0, 0)
    /\ page.toasts = <<"nothing to do">>
    /\ page.usernames = <<<<"a">>, <<"b">>>>
    /\ page.users = <<[username |-> <<"a">>]>>
    /\ page.failedUsers = <<[username |-> <<"b">>, error |-> StatusText(404)]>>
    /\ ~page.loading

\* C17: once the retry of a failed username is over, the username is in the
\* accepted list, under itself or its login, or in the failed list, and
\* fetchGithubUserData has been called for it again.
C17_RetryRuns ==
    (page.retried # NoName /\ ~Busy(page)) =>
        /\ \/ \E i \in DOMAIN page.users :
                 page.users[i].username \in {page.retried, Login(page.retried)}
           \/ \E i \in DOMAIN page.failedUsers :
                 page.failedUsers[i].username = page.retried
        /\ page.retried \in page.refetched

(***************************************************************************)
(* Properties of the CSV upload, checked under SpecCsv.                    *)
(***************************************************************************)

\* the value of a row: the field of the column named username if there is
\* one and the field is not empty, else the field of the first column
ColumnValue(header, fields) ==
    IF \E c \in DOMAIN header :
          header[c] = UsernameColumn /\ fields[c] # <<>>
    THEN fields[CHOOSE c \in DOMAIN header : header[c] = UsernameColumn]
    ELSE fields[1]

\* C18: each row whose value, trimmed, matches the handle grammar adds the
\* trimmed value to the queued list and each other row adds one to the
\* invalid rows, so that the two together count the rows; when the rows
\* are through a warning is shown exactly if there are invalid rows, the
\* queued list is kept as csvUsernames, and handleAddUsers is called with
\* the queued list only and fetches nothing else.
C18_CsvQueue ==
    [][/\ (input.pc = "rows" /\ input'.pc = "rows"
              /\ input'.index = input.index + 1) =>
            LET value == Trim(ColumnValue(input'.header, input'.fields))
            IN  /\ IF ValidHandle(value)
                   THEN /\ input'.extractedUsernames =
                              Append(input.extractedUsernames, value)
                        /\ input'.invalidRows = input.invalidRows
                   ELSE /\ input'.extractedUsernames =
                              input.extractedUsernames
                        /\ Len(input'.invalidRows) =
                              Len(input.invalidRows) + 1
                /\ Len(input'.extractedUsernames) + Len(input'.invalidRows)
                      = input'.index
       /\ (input.pc = "rows" /\ input'.pc # "rows") =>
            /\ ("warning" \in Range(input'.toasts))
                  <=> (Len(input.invalidRows) > 0)
            /\ input'.csvUsernames = input.extractedUsernames
       /\ page'.calls = page.calls + 1 =>
            page'.usernames = input'.csvUsernames
       /\ page'.fetched # page.fetched =>
            page'.fetched \subseteq Range(input'.csvUsernames)
      ]_vars

(***************************************************************************)
(* Properties of executeInBatches and of the waits of executeWithRetry.    *)
(***************************************************************************)

\* the slots whose request function has been called and has not settled
InFlight == {c \in DOMAIN call : call[c].pc = "awaiting"}

\* C19: during a run of executeInBatches at most batchSize request
\* functions have been started and have not settled.
C19_AtMostBatchSize ==
    batch.pc # "idle" => Cardinality(InFlight) <= batch.batchSize

C19_Witness ==
    /\ batch.pc = "group"
    /\ batch.n = 3
    /\ batch.batchSize = 2
    /\ InFlight = {1, 2}
    /\ call[1].retries = 1

RECURSIVE Pow2(_)
Pow2(n) == IF n = 0 THEN 1 ELSE 2 * Pow2(n - 1)

\* a step in which the call, after a quota-exhausted failure, starts to wait
Waits == call[1].pc = "awaiting" /\ call'[1].pc = "sleeping"

\* the reset timestamp of the failure the call has just seen
ResetOf(c) == c.lastErr.reset

\* the time left until the reset, in milliseconds
UntilReset(resetTime, t) == Max(parseInt(resetTime) * 1000 - t, 0)

\* C20 as stated: the wait after a failure with a reset timestamp is the
\* time left until the reset plus one second; the wait after a failure
\* without one, before the k-th retry of the call, is
\* initialDelay * 2^(k-1).
C20_WaitPerRetry ==
    [][Waits =>
          call'[1].wakeAt - now =
              IF Truthy(ResetOf(call'[1]))
              THEN UntilReset(ResetOf(call'[1]), now) + 1000
              ELSE call[1].initialDelay * Pow2(call[1].retries)
      ]_vars

\* C20 amended: the wait after a failure with a reset timestamp is the
\* time left until the reset plus one second; the wait after a failure
\* without one is initialDelay * 2^b, where b is the number of earlier waits
\* of the call that followed a failure without reset timestamp.
C20_WaitPerBackoff ==
    [][Waits =>
          call'[1].wakeAt - now =
              IF Truthy(ResetOf(call'[1]))
              THEN UntilReset(ResetOf(call'[1]), now) + 1000
              ELSE call[1].initialDelay * Pow2(call[1].backoffs)
      ]_vars

C20_Witness ==
    /\ call[1].pc = "sleeping"
    /\ call[1].retries = 1
    /\ call[1].backoff
    /\ call[1].backoffs = 2
    /\ call[1].wakeAt = now + 2 * call[1].initialDelay

(***************************************************************************)
(* Properties of executeWithRetry calls that race on a cache key, checked  *)
(* under SpecRace.                                                         *)
(***************************************************************************)

\* C21: a call that returns without invoking its request function returns
\* the data of the entry that the latest successful invocation stored under
\* the key; a call that returns after an invocation returns the result of
\* that invocation and leaves it, with the time and the expiry of that very
\* invocation, as the entry of the key; the entry changes in no other step
\* and is at all times absent or what the latest successful invocation
\* stored.
C21_BenignRace ==
    [][/\ \A c \in Racers :
            /\ (call[c].pc = "idle" /\ call'[c].pc = "returned") =>
                  /\ Get(responseCache, RaceKey) # NoEntry
                  /\ call'[c].res = Get(responseCache, RaceKey).data
                  /\ call'[c].res = Get(lastStore, RaceKey).v
                  /\ call'[c].invoked = 0
            /\ (call[c].pc = "awaiting" /\ call'[c].pc = "returned") =>
                  /\ call'[c].res \in Values
                  /\ call'[c].invoked >= 1
                  /\ Get(responseCache', RaceKey) =
                        NewEntry(call'[c].res, now, call[c].cacheDuration)
            /\ (call[c].pc # "returned" /\ call'[c].pc = "returned") =>
                  call[c].pc \in {"idle", "awaiting"}
       /\ responseCache' # responseCache =>
            \E c \in Racers :
                call[c].pc = "awaiting" /\ call'[c].pc = "returned"
       /\ DOMAIN responseCache' \subseteq {RaceKey}
       /\ Get(responseCache', RaceKey) # NoEntry =>
            Get(responseCache', RaceKey) =
                NewEntry(Get(lastStore', RaceKey).v, Get(lastStore', RaceKey).at,
                         Get(lastStore', RaceKey).ttl)
      ]_vars

\* both calls invoked their request function, the second of them returned
\* last and its result is the entry
C21_Witness ==
    /\ call[1].pc = "returned" /\ call[2].pc = "returned"
    /\ call[1].invoked = 1 /\ call[2].invoked = 2
    /\ call[1].cacheDuration = 2000
    /\ now = 1000
    /\ call[1].res # call[2].res
    /\ Get(responseCache, RaceKey) =
          NewEntry(call[2].res, now, call[2].cacheDuration)

(***************************************************************************)
(* Properties of the cache keys, checked under SpecKeys.                   *)
(***************************************************************************)

\* C22: what a wrapped request returns, from the remote API or from the
\* cache, is a value of that very request: no two different requests are
\* made with the same cache key.
C22_KeysInjective ==
    call[1].pc = "returned" => call[1].res = AnswerTo(agg.request)

(***************************************************************************)
(* Properties of the loop of handleAddUsers, checked under SpecPage.       *)
(***************************************************************************)

\* a step in which the loop goes on to fetch its next username
StartsNext == Busy(page) /\ page'.pc = "fetching" /\ page'.k # page.k

\* C23: the loop fetches the usernames of the filtered list in their order,
\* starting with the first; it fetches the next one only when the fetch
\* before it has settled and the delay of one second that the settling
\* started has passed, and it ends only after the last one.
C23_OneAtATime ==
    [][/\ (~Busy(page) /\ page'.pc = "fetching") => page'.k = 1
       /\ StartsNext =>
            /\ page'.k = page.k + 1
            /\ page'.uniqueUsernames = page.uniqueUsernames
            /\ page.pc = "pause"
            /\ page.waited = AddDelayMs
       /\ page'.pc = "fetching" =>
            page'.fetched =
                page.fetched \cup {page'.uniqueUsernames[page'.k]}
       /\ page'.pc # "fetching" => page'.fetched = page.fetched
       /\ (page.pc = "fetching" /\ page'.pc # "fetching"
              /\ Len(page.uniqueUsernames) > 1) =>
            page'.pc = "pause" /\ page'.waited = 0 /\ page'.k = page.k
       /\ LoopEnds => page.k = Len(page.uniqueUsernames)
      ]_vars

C23_Witness ==
    /\ page.pc = "fetching"
    /\ page.uniqueUsernames = <<<<"b">>, <<"a">>>>
    /\ page.k = 2
    /\ page.fetched = {<<"a">>, <<"b">>}
    /\ Len(page.erroredUsers) = 1

(***************************************************************************)
(* Properties of the pull request count and of the commit sample, checked  *)
(* under SpecAgg.                                                          *)
(***************************************************************************)

\* C24: whatever the pull request search ends with, the aggregation goes on
\* to return a statistics record; its pullRequests is the total_count of
\* the search if the search succeeded and 0 if it failed.
C24_PullRequestsDefault ==
    [][(agg.pc = "pulls" /\ agg' # agg) =>
          /\ call[1].pc \in {"returned", "thrown"}
          /\ agg'.pc = "done"
          /\ "stats" \in DOMAIN agg'.result
          /\ agg'.result.pullRequests =
                IF call[1].pc = "returned" THEN call[1].res.total_count ELSE 0
      ]_vars

C24_Witness ==
    /\ agg.pc = "done"
    /\ "stats" \in DOMAIN agg.result
    /\ agg.result.pullRequests = 0
    /\ agg.result.commitCount = 6
    /\ agg.result.repoCount = 2

\* the lines a commit reports as changed, none if it reports no stats
Changed(stats) ==
    IF stats = NoStats THEN 0 ELSE stats.additions + stats.deletions

\* num / den rounded to the nearest integer, halves up
Rounded(num, den) ==
    CHOOSE r \in 0..num : 2 * den * r - den <= 2 * num /\ 2 * num < 2 * den * r + den

RECURSIVE Sigma(_)
Sigma(f) ==
    IF DOMAIN f = {} THEN 0
    ELSE LET i == CHOOSE j \in DOMAIN f : TRUE
         IN  f[i] + Sigma([j \in DOMAIN f \ {i} |-> f[j]])

\* repository i's callback takes the answer to its page request and stops
StopsPaging(i) ==
    /\ agg'.repos[i].settled
    /\ agg'.repos[i].requests = agg.repos[i].requests
    /\ agg'.repos[i].repoActivity.total = Len(agg'.repos[i].allCommits)

\* C26: detailedAnalysis requests the commit pages of a repository in the
\* order 1, 2, ... and stops at the first empty page, at the first failed
\* request or after page 5, so that no repository gets more than 5 page
\* requests and the paging always ends; a repository's total is the number
\* of commits on its pages fetched with success, and the totals of the
\* record are the sums of the repositories' totals.
C26_PagingBounded ==
    /\ [](\A i \in DOMAIN agg.repos :
            LET r == agg.repos[i]
            IN  /\ r.requests \in 1..5
                /\ ~r.settled => r.page = r.requests)
    /\ [][\A i \in DOMAIN agg.repos :
            (agg.pc = "paging" /\ agg'.repos[i] # agg.repos[i]) =>
                LET r == agg.repos[i]
                    s == agg'.repos[i]
                IN  /\ ~r.settled
                    /\ \/ /\ s.allCommits = r.allCommits
                          /\ StopsPaging(i)
                       \/ /\ \E commits \in CommitPages \ {<<>>} :
                                s.allCommits = r.allCommits \o commits
                          /\ IF r.requests = 5
                             THEN StopsPaging(i)
                             ELSE /\ ~s.settled
                                  /\ s.requests = r.requests + 1]_vars
    /\ [](agg.pc = "done" =>
            /\ agg.result.commitCount =
                 Sigma([i \in DOMAIN agg.repos |->
                            Len(agg.repos[i].allCommits)])
            /\ agg.result.stats.totalCommits = agg.result.commitCount
            /\ agg.result.stats.weeklyCommits =
                 Sigma([i \in DOMAIN agg.repos |->
                            agg.repos[i].repoActivity.weekly])
            /\ agg.result.stats.monthlyCommits =
                 Sigma([i \in DOMAIN agg.repos |->
                            agg.repos[i].repoActivity.monthly]))
    /\ (agg.pc = "paging") ~> (agg.pc = "done")

\* one repository was cut off after its fifth page, a second stopped at its
\* second request, and the record sums the two
C26_Witness ==
    /\ agg.pc = "done"
    /\ Len(agg.repos) = 2
    /\ agg.repos[1].requests = 5
    /\ agg.repos[1].page = 6
    /\ agg.repos[2].requests = 2
    /\ agg.repos[2].page = 2
    /\ agg.result.commitCount = 18
    /\ agg.result.stats.weeklyCommits = 6

\* C27: when one of the three commit searches of efficientAnalysis fails,
\* each of the weekly, monthly and total counts of the record is
\* round(S * repoCount / sampleSize), where S is the sum of the count over
\* the results of the sampled repositories and of nothing else.
C27_SampleOnly ==
    (agg.pc = "done" /\ agg.sample # <<>>) =>
        LET n == Len(agg.sample)
            S(field) == Sigma([i \in 1..n |-> agg.sample[i][field]])
        IN  /\ n = Min(10, agg.repoCount)
            /\ agg.result.stats.weeklyCommits
                 = Rounded(S("weekly") * agg.repoCount, n)
            /\ agg.result.stats.monthlyCommits
                 = Rounded(S("monthly") * agg.repoCount, n)
            /\ agg.result.stats.totalCommits
                 = Rounded(S("total") * agg.repoCount, n)

\* the usernames of the records of a list are pairwise different
Distinct(records) ==
    \A i, j \in DOMAIN records :
        records[i].username = records[j].username => i = j

\* C28: whatever lists were submitted and whatever rows were retried or
\* dismissed, no username has two records in the accepted list, none has two
\* records in the failed list, and none has a record in both lists.
C28_ListsDisjoint ==
    /\ Distinct(page.users)
    /\ Distinct(page.failedUsers)
    /\ \A i \in DOMAIN page.users, j \in DOMAIN page.failedUsers :
            page.users[i].username # page.failedUsers[j].username

\* the least number of groups of batchSize requests that hold n requests
Ceil(n, batchSize) == (n + batchSize - 1) \div batchSize

\* C29: executeInBatches comes to an end for every list of requests and
\* every batchSize >= 0 once its requests settle: every pass of the loop
\* moves the index on, so that ceil(n / batchSize) groups are run; it pauses
\* only with a group still to come; and for the empty list it returns the
\* empty array at once.
C29_BatchesTerminate ==
    [][/\ (batch.pc = "pause" /\ batch'.pc = "group") =>
            /\ batch'.i = batch.i + batch.batchSize
            /\ batch'.i > batch.i
       /\ (batch.pc = "group" /\ batch'.pc = "pause") =>
            batch.i + batch.batchSize < batch.n
       /\ (batch.pc = "group" /\ batch'.pc = "returned") =>
            /\ batch.i + batch.batchSize >= batch.n
            /\ batch'.i = Ceil(batch.n, batch.batchSize) * batch.batchSize
       /\ (batch.pc = "idle" /\ batch' # batch /\ batch.n = 0) =>
            /\ batch'.pc = "returned"
            /\ batch'.results = <<>>]_vars

\* C30: a handleAddUsers call that sets loading resets it in the end, with
\* the count of loadingInfo 0, whether its aggregations succeed or fail;
\* and loading is set for as long as a call that has begun with its
\* filtered list has not returned, also when a row is retried meanwhile.
C30_LoadingReset ==
    /\ [](Busy(page) => page.loading /\ page.loadingInfo > 0)
    /\ [][(page.loading /\ ~page'.loading) =>
            /\ Busy(page)
            /\ page'.pc = "returned"
            /\ page'.loadingInfo = 0]_vars
    /\ page.loading ~> (~page.loading /\ page.loadingInfo = 0)

\* a row was retried while the second submission was being fetched, and the
\* submission has returned
C30_Witness ==
    /\ page.pc = "returned"
    /\ page.calls = 2
    /\ page.retried = <<"a">>
    /\ page.toasts = <<"success">>
    /\ ~page.loading
    /\ page.loadingInfo = 0

====
